---- MODULE Spec2Model ----
(***************************************************************************)
(* KiboStudio observability core: the agent registry with its health       *)
(* monitor (kiboup/studio/discovery.py) and the trace/span store            *)
(* (kiboup/studio/db.py, tracer.py, collector.py).                          *)
(*                                                                         *)
(* A table of the SQLite store is a set of rows; a payload (a Python dict)  *)
(* is a function whose DOMAIN is the set of keys the caller sent, so that   *)
(* data.get(k, default) can tell a missing key from a present one.          *)
(***************************************************************************)
EXTENDS Integers, Sequences, FiniteSets, TLC

(***************************************************************************)
(* Bounds of the model.                                                    *)
(***************************************************************************)
MaxTime == 4
MaxThreads == 2
MaxBatch == 2
MaxSpans == 2
MaxStamp == 2

(***************************************************************************)
(* Program constants.                                                      *)
(***************************************************************************)
ErrorThreshold == 5
DefaultInterval == 15
RowDefaultInterval == 15
TimeoutFactor == 3

AgentIds == {"a1", "a2"}
AgentStatus == {"healthy", "degraded", "busy", "unreachable"}

VARIABLES
    now,        \* the wall clock, in seconds
    agents,     \* table agents: a set of rows
    lastCall,   \* the last discovery call that completed, with its result
    hb,         \* a heartbeat call in progress, store call by store call
    sweeper,    \* a run of _check_agent_health in progress
    running,    \* DiscoveryService._running
    loops,      \* the monitor threads: where each is in _health_monitor_loop
    agentsB,    \* table agents of a second registry, fed other heartbeats
    synced,     \* the last heartbeat went to both registries
    traces,     \* table traces: a set of rows, at most one per trace_id
    spans,      \* table spans: a set of rows, at most one per span_id
    ing,        \* a SpanCollector.ingest_spans call in flight
    trc,        \* a tracer.trace(...) context: open, or closing in _finalize
    pre,        \* the tables as they were when the ingest_spans call began
    flags,      \* table feature_flags: a set of rows
    params,     \* table parameters: a set of rows
    setters,    \* per thread: the set_flag / set_param call it is in
    evals,      \* table evaluations: a set of rows
    run,        \* the run_evaluation call under way: its position and locals
    prompts,    \* table prompts: a set of rows
    versions,   \* table prompt_versions: a set of rows
    calls       \* per thread: the PromptStore call it is in, with its locals

raceVars == <<hb, sweeper>>
monVars == <<running, loops>>
pureVars == <<agentsB, synced>>
storeVars == <<traces, spans, ing, trc, pre>>
flagVars == <<flags, params, setters>>
evalVars == <<evals, run>>
promptVars == <<prompts, versions, calls>>

(***************************************************************************)
(* dict.get(key, default)                                                  *)
(***************************************************************************)
Get(d, k, default) == IF k \in DOMAIN d THEN d[k] ELSE default

Restrict(f, S) == [k \in S |-> f[k]]

(***************************************************************************)
(* SQLiteStore: table agents (PRIMARY KEY agent_id).                       *)
(***************************************************************************)
\* _row_to_agent: the row as the store hands it out. A stored interval of 0
\* is falsy and reads back as 15; the status column always holds a member
\* of AgentStatus here, so AgentStatus(status_val) never raises.
RowToAgent(r) ==
    [r EXCEPT !.heartbeat_interval_s =
        IF r.heartbeat_interval_s = 0 THEN RowDefaultInterval
        ELSE r.heartbeat_interval_s]

RowsOf(tbl, id) == {r \in tbl : r.agent_id = id}

\* get_agent: SELECT * FROM agents WHERE agent_id = ?  (None: the empty set)
GetAgent(tbl, id) == {RowToAgent(r) : r \in {x \in tbl : x.agent_id = id}}

\* list_agents() with no filter
ListAgents(tbl) == {RowToAgent(r) : r \in tbl}

\* (mutant) a plain INSERT that keeps the row with the same primary key
SaveAgentNoReplace(tbl, a) == tbl \cup {a}

\* save_agent: INSERT OR REPLACE, the row with the same primary key goes
SaveAgent(tbl, a) == {x \in tbl : x.agent_id # a.agent_id} \cup {a}

\* delete_agent: DELETE FROM agents WHERE agent_id = ?
DeleteAgent(tbl, id) == {x \in tbl : x.agent_id # id}

(***************************************************************************)
(* Payloads of the discovery calls (JSON bodies): records over the keys    *)
(* the caller sent.  A call's input is drawn from one of these sets.       *)
(***************************************************************************)
Endpoints == {"e1", "e2"}
Intervals == {0, 1}
StatusWords == AgentStatus \cup {"bogus"}
ErrorCounts == {0, ErrorThreshold}
TaskCounts == {1}

\* one agent, every combination of present and missing keys
RegisterPayloads ==
    {Restrict(f, {"agent_id"} \cup ks) :
        f \in [agent_id : {"a1"}, endpoint : Endpoints,
               heartbeat_interval_s : Intervals],
        ks \in SUBSET {"endpoint", "heartbeat_interval_s"}}

\* heartbeats of that agent and of one that never registers
HeartbeatPayloads ==
    {Restrict(f, {"agent_id"} \cup ks) :
        f \in [agent_id : AgentIds, status : StatusWords,
               error_count_last_5m : ErrorCounts, active_tasks : TaskCounts],
        ks \in SUBSET {"status", "error_count_last_5m", "active_tasks"}}

\* a fleet of two agents, each with few payloads; the last one has no
\* agent_id, so that register falls back on the name
FleetRegisterPayloads ==
    {[agent_id |-> "a1", heartbeat_interval_s |-> 1],
     [agent_id |-> "a1", endpoint |-> "e1"],
     [agent_id |-> "a2", heartbeat_interval_s |-> 1],
     [name |-> "a2", endpoint |-> "e2"]}

FleetHeartbeatPayloads ==
    {Restrict(f, {"agent_id"} \cup ks) :
        f \in [agent_id : AgentIds, status : {"busy", "unreachable"}],
        ks \in SUBSET {"status"}}
    \cup {[agent_id |-> id, error_count_last_5m |-> ErrorThreshold] : id \in AgentIds}

NoData == [k \in {} |-> ""]

\* lastCall: the call that completed last (op, its payload, what it returned)
\* and the status its agent's row had before it ("none": no row)
NoCall == [op |-> "none", data |-> NoData, result |-> "none", prev |-> "none"]

PrevStatus(tbl, id) ==
    IF \E r \in tbl : r.agent_id = id
    THEN (CHOOSE r \in tbl : r.agent_id = id).status
    ELSE "none"

(***************************************************************************)
(* DiscoveryService                                                         *)
(***************************************************************************)
\* register, the branch `if existing:` (lines 55-66)
RegisterExisting(existing, data, t) ==
    [existing EXCEPT
        !.endpoint = Get(data, "endpoint", existing.endpoint),
        !.heartbeat_interval_s =
            Get(data, "heartbeat_interval_s", existing.heartbeat_interval_s),
        !.last_heartbeat = t,
        !.status = "healthy"]

\* register, the new AgentRegistration (lines 68-80)
RegisterNew(agent_id, data, t) ==
    [agent_id |-> IF agent_id # "" THEN agent_id ELSE Get(data, "name", "unknown"),
     endpoint |-> Get(data, "endpoint", ""),
     status |-> "healthy",
     last_heartbeat |-> t,
     heartbeat_interval_s |-> Get(data, "heartbeat_interval_s", DefaultInterval),
     error_count_last_5m |-> 0,
     active_tasks |-> 0]

\* register: the row it saves, from the rows get_agent returned
RegisterRow(existing, data, t) ==
    IF existing # {}
    THEN RegisterExisting(CHOOSE e \in existing : TRUE, data, t)
    ELSE RegisterNew(Get(data, "agent_id", ""), data, t)

\* register: existing = get_agent(agent_id) if agent_id else None
RegisterLookup(tbl, data) ==
    IF Get(data, "agent_id", "") # ""
    THEN GetAgent(tbl, Get(data, "agent_id", ""))
    ELSE {}

\* (mutant) the error threshold is tested before the payload's "busy"
ResolveStatusErrorsFirst(data, count) ==
    LET reported_status == Get(data, "status", "healthy")
    IN  IF count >= ErrorThreshold THEN "degraded"
        ELSE IF reported_status = "busy" THEN "busy"
        ELSE IF reported_status \in AgentStatus THEN reported_status
        ELSE "healthy"

\* heartbeat: the status resolution (lines 108-117); `count` is the agent's
\* error_count_last_5m after the payload's counters were applied
ResolveStatus(data, count) ==
    LET reported_status == Get(data, "status", "healthy")
    IN  IF reported_status = "busy" THEN "busy"
        ELSE IF count >= ErrorThreshold THEN "degraded"
        ELSE IF reported_status \in AgentStatus THEN reported_status
        ELSE "healthy"

\* heartbeat: the row it saves (lines 102-117)
HeartbeatRow(agent, data, t) ==
    LET count == Get(data, "error_count_last_5m", agent.error_count_last_5m)
    IN  [agent EXCEPT
            !.last_heartbeat = t,
            !.active_tasks = Get(data, "active_tasks", agent.active_tasks),
            !.error_count_last_5m = count,
            !.status = ResolveStatus(data, count)]

\* (mutant) only healthy agents are tested for staleness
IsStaleHealthyOnly(agent, t) ==
    /\ agent.status = "healthy"
    /\ t - agent.last_heartbeat > agent.heartbeat_interval_s * TimeoutFactor

\* _check_agent_health: the test on one agent of the listing (lines 151-166)
IsStale(agent, t) ==
    /\ agent.status # "unreachable"
    /\ t - agent.last_heartbeat > agent.heartbeat_interval_s * TimeoutFactor

\* (mutant) the monitor recovers an unreachable agent whose heartbeat is fresh
CheckOneRecovering(tbl, agent, t) ==
    IF agent.status # "unreachable"
       /\ t - agent.last_heartbeat > agent.heartbeat_interval_s * TimeoutFactor
    THEN SaveAgent(tbl, [agent EXCEPT !.status = "unreachable"])
    ELSE IF agent.status = "unreachable"
            /\ t - agent.last_heartbeat <= agent.heartbeat_interval_s * TimeoutFactor
    THEN SaveAgent(tbl, [agent EXCEPT !.status = "healthy"])
    ELSE tbl

\* _check_agent_health: what the loop does with one agent of the listing
CheckOne(tbl, agent, t) ==
    IF IsStale(agent, t)
    THEN SaveAgent(tbl, [agent EXCEPT !.status = "unreachable"])
    ELSE tbl

\* _check_agent_health: the loop over the listing
RECURSIVE CheckAll(_, _, _)
CheckAll(tbl, listing, t) ==
    IF listing = {} THEN tbl
    ELSE LET agent == CHOOSE a \in listing : TRUE
         IN  CheckAll(CheckOne(tbl, agent, t), listing \ {agent}, t)

\* (mutant) a heartbeat of an unknown agent registers it
HeartbeatSaveUpsert(tbl, agent, data, t) ==
    IF agent = {}
    THEN SaveAgent(tbl, RegisterNew(Get(data, "agent_id", ""), data, t))
    ELSE SaveAgent(tbl, HeartbeatRow(CHOOSE a \in agent : TRUE, data, t))

\* heartbeat: the table it leaves, from the rows get_agent returned
\* (lines 98-119: nothing is saved when the agent is not registered)
HeartbeatSave(tbl, agent, data, t) ==
    IF agent = {} THEN tbl
    ELSE SaveAgent(tbl, HeartbeatRow(CHOOSE a \in agent : TRUE, data, t))

\* _api_heartbeat: the HTTP status of the answer
ApiHeartbeatStatus(result) == IF result = "none" THEN 404 ELSE 200

(***************************************************************************)
(* Processes.  Every call of the store is one transaction on a connection  *)
(* of its own (SQLiteStore._conn); the service takes no lock, so what a    *)
(* call computes between two store calls works on the rows it read.        *)
(***************************************************************************)
\* no ingest_spans call in flight
IngIdle ==
    [pc |-> "idle", trace_id |-> "", raw_spans |-> <<>>, existing |-> FALSE,
     i |-> 0, accepted |-> 0, result |-> "none"]

\* both tables empty
NoTables == [traces |-> {}, spans |-> {}]

\* no trace context open
TrcIdle ==
    [pc |-> "idle", trace |-> {}, spans |-> <<>>, open |-> <<>>, i |-> 0,
     exc |-> "none", seen |-> "none"]

HbIdle == [pc |-> "idle", data |-> NoData, agent |-> {}, row |-> {}]
SweeperIdle == [pc |-> "idle", listing |-> {}, t |-> 0]
Threads == 1..MaxThreads

\* no run_evaluation call under way
RunIdle ==
    [pc |-> "idle", eval_id |-> "", trace_id |-> "", requested |-> {},
     credential |-> FALSE, status |-> "pending", error |-> "None",
     metrics |-> NoData, question |-> "", answer |-> "", path |-> "none",
     returned |-> "none"]

\* a thread that is in no PromptStore call
CallIdle ==
    [pc |-> "idle", prompt_id |-> "None", version |-> 0, activate |-> FALSE,
     prompt |-> {}, listed |-> {}, target |-> {}, todo |-> <<>>, after |-> "none"]

\* a thread that is in no set_flag / set_param call
SetIdle ==
    [pc |-> "idle", agent_id |-> "", name |-> "", enabled |-> FALSE,
     value |-> "None", existing |-> {}, last |-> "none"]

(***************************************************************************)
(* The calls, each run to completion (no other call interleaves).          *)
(***************************************************************************)
Register(data) ==
    LET existing == RegisterLookup(agents, data)
        row == RegisterRow(existing, data, now)
    IN  /\ agents' = SaveAgent(agents, row)
        /\ lastCall' = [op |-> "register", data |-> data,
                        result |-> IF existing # {} THEN "updated" ELSE "created",
                        prev |-> PrevStatus(agents, row.agent_id)]
        /\ UNCHANGED <<now, raceVars, monVars, pureVars, storeVars, promptVars, evalVars, flagVars, evalVars>>

Heartbeat(data) ==
    LET agent == GetAgent(agents, Get(data, "agent_id", ""))
    IN  /\ agents' = HeartbeatSave(agents, agent, data, now)
        /\ lastCall' = [op |-> "heartbeat", data |-> data,
                        result |-> IF agent = {} THEN "none" ELSE "ok",
                        prev |-> PrevStatus(agents, Get(data, "agent_id", ""))]
        /\ UNCHANGED <<now, raceVars, monVars, pureVars, storeVars, promptVars, evalVars, flagVars, evalVars>>

Deregister(id) ==
    /\ agents' = DeleteAgent(agents, id)
    /\ lastCall' = [op |-> "deregister", data |-> [agent_id |-> id],
                    result |-> IF GetAgent(agents, id) # {} THEN "deleted" ELSE "missing",
                    prev |-> PrevStatus(agents, id)]
    /\ UNCHANGED <<now, raceVars, monVars, pureVars, storeVars, promptVars, evalVars, flagVars, evalVars>>

CheckAgentHealth ==
    /\ agents' = CheckAll(agents, ListAgents(agents), now)
    /\ lastCall' = [op |-> "sweep", data |-> NoData,
                    result |-> IF \E a \in ListAgents(agents) : IsStale(a, now)
                               THEN "marked" ELSE "clean",
                    prev |-> "none"]
    /\ UNCHANGED <<now, raceVars, monVars, pureVars, storeVars, promptVars, evalVars, flagVars, evalVars>>

Tick ==
    /\ now < MaxTime
    /\ now' = now + 1
    /\ lastCall' = NoCall
    /\ UNCHANGED <<agents, raceVars, monVars, pureVars, storeVars, promptVars, evalVars, flagVars, evalVars>>

Init ==
    /\ now = 0
    /\ agents = {}
    /\ lastCall = NoCall
    /\ hb = HbIdle
    /\ sweeper = SweeperIdle
    /\ running = FALSE
    /\ loops = [t \in Threads |-> "unborn"]
    /\ agentsB = {}
    /\ synced = FALSE
    /\ traces = {}
    /\ spans = {}
    /\ ing = IngIdle
    /\ trc = TrcIdle
    /\ pre = NoTables
    /\ flags = {}
    /\ params = {}
    /\ setters = [t \in Threads |-> SetIdle]
    /\ evals = {}
    /\ run = RunIdle
    /\ prompts = {}
    /\ versions = {}
    /\ calls = [t \in Threads |-> CallIdle]

vars == <<now, agents, lastCall, hb, sweeper, running, loops, agentsB, synced,
          traces, spans, ing, trc, pre, flags, params, setters, evals, run,
          prompts, versions, calls>>

\* the registry of a fleet of two agents
Next ==
    \/ \E data \in FleetRegisterPayloads : Register(data)
    \/ \E data \in FleetHeartbeatPayloads : Heartbeat(data)
    \/ \E id \in AgentIds : Deregister(id)
    \/ CheckAgentHealth
    \/ Tick

Spec == Init /\ [][Next]_vars

\* the calls of one agent, over every payload
NextCalls ==
    \/ \E data \in RegisterPayloads : Register(data)
    \/ \E data \in HeartbeatPayloads : Heartbeat(data)
    \/ Deregister("a1")
    \/ CheckAgentHealth
    \/ Tick

SpecCalls == Init /\ [][NextCalls]_vars

(***************************************************************************)
(* heartbeat and _check_agent_health, store call by store call.            *)
(***************************************************************************)
RacePayloads ==
    {[agent_id |-> "a1"],
     [agent_id |-> "a1", status |-> "busy"],
     [agent_id |-> "a1", error_count_last_5m |-> ErrorThreshold, active_tasks |-> 1]}

\* register {agent_id: "a1", heartbeat_interval_s: 1}, while no call is under way
RaceRegister ==
    /\ hb.pc = "idle"
    /\ sweeper.pc = "idle"
    /\ Register([agent_id |-> "a1", heartbeat_interval_s |-> 1])

\* heartbeat, line 98: agent = self._store.get_agent(agent_id)
HbRead(data) ==
    /\ hb.pc = "idle"
    /\ hb' = [pc |-> "read", data |-> data,
              agent |-> GetAgent(agents, Get(data, "agent_id", "")), row |-> {}]
    /\ UNCHANGED <<now, agents, lastCall, sweeper, monVars, pureVars, storeVars, promptVars, evalVars, flagVars, evalVars>>

\* heartbeat, lines 99-117: return None, or stamp and fill the agent read
HbStamp ==
    /\ hb.pc = "read"
    /\ hb' = IF hb.agent = {}
             THEN [hb EXCEPT !.pc = "done"]
             ELSE [hb EXCEPT !.pc = "stamped",
                             !.row = {HeartbeatRow(a, hb.data, now) : a \in hb.agent}]
    /\ UNCHANGED <<now, agents, lastCall, sweeper, monVars, pureVars, storeVars, promptVars, evalVars, flagVars, evalVars>>

\* heartbeat, line 119: self._store.save_agent(agent)
HbWrite ==
    /\ hb.pc = "stamped"
    /\ agents' = SaveAgent(agents, CHOOSE r \in hb.row : TRUE)
    /\ hb' = [hb EXCEPT !.pc = "done"]
    /\ UNCHANGED <<now, lastCall, sweeper, monVars, pureVars, storeVars, promptVars, evalVars, flagVars, evalVars>>

\* the caller has its answer; another heartbeat may come
HbReturn ==
    /\ hb.pc = "done"
    /\ hb' = HbIdle
    /\ UNCHANGED <<now, agents, lastCall, sweeper, monVars, pureVars, storeVars, promptVars, evalVars, flagVars, evalVars>>

\* _check_agent_health, line 147: agents = self._store.list_agents()
SweepList ==
    /\ sweeper.pc = "idle"
    /\ sweeper' = [pc |-> "listed", listing |-> ListAgents(agents), t |-> 0]
    /\ UNCHANGED <<now, agents, lastCall, hb, monVars, pureVars, storeVars, promptVars, evalVars, flagVars, evalVars>>

\* _check_agent_health, line 148: now = datetime.now(timezone.utc)
SweepNow ==
    /\ sweeper.pc = "listed"
    /\ sweeper' = [sweeper EXCEPT !.pc = "loop", !.t = now]
    /\ UNCHANGED <<now, agents, lastCall, hb, monVars, pureVars, storeVars, promptVars, evalVars, flagVars, evalVars>>

\* _check_agent_health, lines 150-168: one agent of the listing
SweepOne ==
    /\ sweeper.pc = "loop"
    /\ \E agent \in sweeper.listing :
        /\ agents' = CheckOne(agents, agent, sweeper.t)
        /\ sweeper' = [sweeper EXCEPT !.listing = @ \ {agent}]
    /\ UNCHANGED <<now, lastCall, hb, monVars, pureVars, storeVars, promptVars, evalVars, flagVars, evalVars>>

\* _check_agent_health returns
SweepEnd ==
    /\ sweeper.pc = "loop"
    /\ sweeper.listing = {}
    /\ sweeper' = [sweeper EXCEPT !.pc = "done"]
    /\ UNCHANGED <<now, agents, lastCall, hb, monVars, pureVars, storeVars, promptVars, evalVars, flagVars, evalVars>>

\* _health_monitor_loop, line 143: time.sleep(self._check_interval) is over
SweepAgain ==
    /\ sweeper.pc = "done"
    /\ sweeper' = SweeperIdle
    /\ UNCHANGED <<now, agents, lastCall, hb, monVars, pureVars, storeVars, promptVars, evalVars, flagVars, evalVars>>

NextRace ==
    \/ RaceRegister
    \/ \E data \in RacePayloads : HbRead(data)
    \/ HbStamp
    \/ HbWrite
    \/ HbReturn
    \/ SweepList
    \/ SweepNow
    \/ SweepOne
    \/ SweepEnd
    \/ SweepAgain
    \/ Tick

SpecRace == Init /\ [][NextRace]_vars

\* C2: whatever the interleaving of a heartbeat and a sweep on one row, once
\* both have completed the row is the one the heartbeat wrote (its
\* last_heartbeat, its counters), and its status is unreachable only if the
\* row is stale relative to that heartbeat.
C2_HeartbeatSurvivesSweep ==
    (hb.pc = "done" /\ hb.row # {} /\ sweeper.pc = "done") =>
        \A w \in hb.row :
            \/ w \in agents
            \/ /\ [w EXCEPT !.status = "unreachable"] \in agents
               /\ now - w.last_heartbeat > TimeoutFactor * w.heartbeat_interval_s

(***************************************************************************)
(* The monitor thread.                                                     *)
(***************************************************************************)
\* start_monitor
StartMonitor ==
    /\ \E t \in Threads : loops[t] = "unborn"
    /\ IF running
       THEN UNCHANGED monVars
       ELSE /\ running' = TRUE
            /\ loops' = [loops EXCEPT
                    ![CHOOSE t \in Threads : loops[t] = "unborn"] = "check"]
    /\ UNCHANGED <<now, agents, lastCall, raceVars, pureVars, storeVars, promptVars, evalVars, flagVars, evalVars>>

\* stop_monitor
StopMonitor ==
    /\ running' = FALSE
    /\ UNCHANGED <<now, agents, lastCall, raceVars, pureVars, loops, storeVars, promptVars, flagVars, evalVars>>

\* _health_monitor_loop, line 137: while self._running
LoopCheck(t) ==
    /\ loops[t] = "check"
    /\ loops' = [loops EXCEPT ![t] = IF running THEN "sweep" ELSE "exited"]
    /\ UNCHANGED <<now, agents, lastCall, raceVars, pureVars, running, storeVars, promptVars, flagVars, evalVars>>

\* _health_monitor_loop, lines 138-142: self._check_agent_health()
LoopSweep(t) ==
    /\ loops[t] = "sweep"
    /\ agents' = CheckAll(agents, ListAgents(agents), now)
    /\ loops' = [loops EXCEPT ![t] = "sleep"]
    /\ UNCHANGED <<now, lastCall, raceVars, pureVars, running, storeVars, promptVars, flagVars, evalVars>>

\* _health_monitor_loop, line 143: time.sleep(self._check_interval) is over
LoopWake(t) ==
    /\ loops[t] = "sleep"
    /\ loops' = [loops EXCEPT ![t] = "check"]
    /\ UNCHANGED <<now, agents, lastCall, raceVars, pureVars, running, storeVars, promptVars, flagVars, evalVars>>

NextMonitor ==
    \/ StartMonitor
    \/ StopMonitor
    \/ \E t \in Threads : LoopCheck(t)
    \/ \E t \in Threads : LoopSweep(t)
    \/ \E t \in Threads : LoopWake(t)
    \/ \E data \in FleetRegisterPayloads : Register(data)
    \/ Tick

SpecMonitor == Init /\ [][NextMonitor]_vars

LiveLoops == {t \in Threads : loops[t] \in {"check", "sweep", "sleep"}}

\* C9: after any sequence of start_monitor and stop_monitor calls, at most
\* one monitor loop is alive.
C9_AtMostOneLoop == Cardinality(LiveLoops) <= 1

(***************************************************************************)
(* Two registries that hold the same agent and receive different           *)
(* heartbeats, then the same one.                                          *)
(***************************************************************************)
PurePayloads ==
    {Restrict(f, {"agent_id"} \cup ks) :
        f \in [agent_id : {"a1"}, status : {"busy", "degraded"},
               error_count_last_5m : ErrorCounts, active_tasks : TaskCounts],
        ks \in SUBSET {"status", "error_count_last_5m", "active_tasks"}}

\* register on a table other than `agents`
RegisterOn(tbl, data, t) == SaveAgent(tbl, RegisterRow(RegisterLookup(tbl, data), data, t))

\* heartbeat on a table other than `agents`
HeartbeatOn(tbl, data, t) ==
    HeartbeatSave(tbl, GetAgent(tbl, Get(data, "agent_id", "")), data, t)

\* the agent registers with both registries
RegisterBoth ==
    LET data == [agent_id |-> "a1", heartbeat_interval_s |-> 1]
    IN  /\ agents' = RegisterOn(agents, data, now)
        /\ agentsB' = RegisterOn(agentsB, data, now)
        /\ synced' = FALSE
        /\ UNCHANGED <<now, lastCall, raceVars, monVars, storeVars, promptVars, flagVars, evalVars>>

\* a heartbeat that only the first registry receives
HeartbeatA(data) ==
    /\ agents # {}
    /\ agents' = HeartbeatOn(agents, data, now)
    /\ synced' = FALSE
    /\ UNCHANGED <<now, lastCall, raceVars, monVars, agentsB, storeVars, promptVars, flagVars, evalVars>>

\* a heartbeat that only the second registry receives
HeartbeatB(data) ==
    /\ agentsB # {}
    /\ agentsB' = HeartbeatOn(agentsB, data, now)
    /\ synced' = FALSE
    /\ UNCHANGED <<now, agents, lastCall, raceVars, monVars, storeVars, promptVars, flagVars, evalVars>>

\* the same heartbeat, received by both at the same time
HeartbeatBoth(data) ==
    /\ agents # {}
    /\ agents' = HeartbeatOn(agents, data, now)
    /\ agentsB' = HeartbeatOn(agentsB, data, now)
    /\ synced' = TRUE
    /\ UNCHANGED <<now, lastCall, raceVars, monVars, storeVars, promptVars, flagVars, evalVars>>

\* both monitors sweep
SweepBoth ==
    /\ agents # {}
    /\ agents' = CheckAll(agents, ListAgents(agents), now)
    /\ agentsB' = CheckAll(agentsB, ListAgents(agentsB), now)
    /\ UNCHANGED <<now, lastCall, raceVars, monVars, synced, storeVars, promptVars, flagVars, evalVars>>

NextPure ==
    \/ RegisterBoth
    \/ \E data \in PurePayloads : HeartbeatA(data)
    \/ \E data \in PurePayloads : HeartbeatB(data)
    \/ \E data \in PurePayloads : HeartbeatBoth(data)
    \/ SweepBoth
    \/ Tick

SpecPure == Init /\ [][NextPure]_vars

\* C6: after the same last heartbeat payload and the same elapsed time the
\* agent has the same status in both registries, whatever heartbeats each
\* received before.
C6_StatusPure ==
    synced => \A a \in agents : \A b \in RowsOf(agentsB, a.agent_id) :
                a.status = b.status

(***************************************************************************)
(* Claims about the registry.                                              *)
(***************************************************************************)
Elapsed(r) == now - r.last_heartbeat

\* C1: one sweep of the monitor leaves unreachable every agent that was not
\* unreachable and whose last_heartbeat was older than 3 x
\* heartbeat_interval_s (strictly), and every agent that was unreachable
\* already: a sweep never toggles the status back.
C1_SweepMarksStale ==
    [][lastCall'.op = "sweep" =>
        \A r \in ListAgents(agents) :
            (r.status = "unreachable"
                \/ Elapsed(r) > TimeoutFactor * r.heartbeat_interval_s)
            => /\ RowsOf(agents', r.agent_id) # {}
               /\ \A x \in RowsOf(agents', r.agent_id) : x.status = "unreachable"]_vars

\* a sweep has just marked a stale agent
C1_Witness ==
    /\ lastCall.op = "sweep"
    /\ lastCall.result = "marked"
    /\ \E r \in ListAgents(agents) :
        /\ r.status = "unreachable"
        /\ Elapsed(r) > TimeoutFactor * r.heartbeat_interval_s

\* C3: a sweep never moves an agent out of unreachable and sets no status but
\* unreachable; an unreachable agent changes status only through register
\* or heartbeat.
C3_SweepOnlyMarks ==
    [][/\ \A r \in agents : \A x \in RowsOf(agents', r.agent_id) :
            (r.status = "unreachable" /\ x.status # "unreachable")
            => lastCall'.op \in {"register", "heartbeat"}
       /\ lastCall'.op = "sweep" =>
            \A x \in agents' :
                \/ x.status = "unreachable"
                \/ \E r \in RowsOf(agents, x.agent_id) : r.status = x.status]_vars

\* a sweep has run over an agent that is unreachable and whose heartbeat is
\* fresh, and has left it so
C3_Witness ==
    /\ lastCall.op = "sweep"
    /\ \E r \in ListAgents(agents) :
        /\ r.status = "unreachable"
        /\ Elapsed(r) <= TimeoutFactor * r.heartbeat_interval_s

\* C4: an agent is unreachable only when it is stale: the time since its
\* last_heartbeat exceeds 3 x heartbeat_interval_s; no register or heartbeat
\* puts a freshly reporting agent into unreachable.
C4_UnreachableOnlyWhenStale ==
    \A r \in ListAgents(agents) :
        r.status = "unreachable"
        => Elapsed(r) > TimeoutFactor * r.heartbeat_interval_s

\* C5: a heartbeat of a registered agent stores busy when the payload's
\* status is "busy", else degraded when error_count_last_5m >= the error
\* threshold, else the payload's status when it is a recognized one, else
\* healthy; it sets last_heartbeat to now and stores the payload's counters.
C5_HeartbeatStatusOrder ==
    (lastCall.op = "heartbeat" /\ lastCall.result = "ok") =>
        LET d == lastCall.data
            rows == RowsOf(agents, d.agent_id)
        IN  /\ rows # {}
            /\ \A r \in rows :
                /\ r.last_heartbeat = now
                /\ "error_count_last_5m" \in DOMAIN d
                    => r.error_count_last_5m = d.error_count_last_5m
                /\ "active_tasks" \in DOMAIN d => r.active_tasks = d.active_tasks
                /\ r.status =
                    IF "status" \in DOMAIN d /\ d.status = "busy" THEN "busy"
                    ELSE IF r.error_count_last_5m >= ErrorThreshold THEN "degraded"
                    ELSE IF "status" \in DOMAIN d /\ d.status \in AgentStatus
                         THEN d.status
                    ELSE "healthy"

\* a heartbeat that says "busy" and reports errors at the threshold
C5_Witness ==
    /\ lastCall.op = "heartbeat"
    /\ lastCall.result = "ok"
    /\ "status" \in DOMAIN lastCall.data
    /\ lastCall.data.status = "busy"
    /\ \E r \in RowsOf(agents, lastCall.data.agent_id) :
        r.error_count_last_5m >= ErrorThreshold /\ r.status = "busy"

\* C7: a heartbeat for an agent_id that is not registered returns None
\* (404 for the HTTP caller) and leaves the registry as it was.
C7_UnknownHeartbeat ==
    [][(lastCall'.op = "heartbeat"
            /\ RowsOf(agents, Get(lastCall'.data, "agent_id", "")) = {})
        => /\ agents' = agents
           /\ lastCall'.result = "none"
           /\ ApiHeartbeatStatus(lastCall'.result) = 404]_vars

\* a heartbeat of an unknown agent was refused while another agent is registered
C7_Witness ==
    /\ lastCall.op = "heartbeat"
    /\ lastCall.result = "none"
    /\ agents # {}
    /\ RowsOf(agents, lastCall.data.agent_id) = {}

\* C8: register is an upsert by agent_id: afterwards exactly one row holds
\* the agent_id, with status healthy, last_heartbeat = now and the payload's
\* endpoint and interval; a new agent_id adds one row, an existing one adds
\* none; no agent_id ever has two rows.
C8_RegisterUpsert ==
    [][/\ \A id \in AgentIds : Cardinality(RowsOf(agents', id)) <= 1
       /\ lastCall'.op = "register" =>
            LET d == lastCall'.data
                id == IF "agent_id" \in DOMAIN d THEN d.agent_id ELSE d.name
            IN  /\ Cardinality(RowsOf(agents', id)) = 1
                /\ agents' \ RowsOf(agents', id) = agents \ RowsOf(agents, id)
                /\ \A x \in RowsOf(agents', id) :
                    /\ x.status = "healthy"
                    /\ x.last_heartbeat = now'
                    /\ "endpoint" \in DOMAIN d => x.endpoint = d.endpoint
                    /\ "heartbeat_interval_s" \in DOMAIN d
                        => x.heartbeat_interval_s = d.heartbeat_interval_s]_vars

\* an unreachable agent has registered again, next to another agent
C8_Witness ==
    /\ lastCall.op = "register"
    /\ lastCall.result = "updated"
    /\ lastCall.prev = "unreachable"
    /\ "endpoint" \in DOMAIN lastCall.data
    /\ Cardinality(agents) = 2


(***************************************************************************)
(* The trace store (db.py), the span collector (collector.py) and the      *)
(* tracer (tracer.py).  Every store method is one SQLite transaction and   *)
(* so one step; a collector or tracer call is a sequence of such steps.    *)
(* A time stamp is a positive integer, None is 0.                          *)
(***************************************************************************)
\* None, for a time stamp and for a duration
NoTime == 0
NoDuration == -1

TraceIds == {"t1", "t2"}
SpanIds == {"s1", "s2"}
Stamps == 1..MaxStamp

\* all that the trace store, the collector and the tracer leave alone
registryVars == <<now, agents, lastCall, raceVars, monVars, pureVars, flagVars, run,
                  promptVars>>

Max(S) == CHOOSE x \in S : \A y \in S : y <= x

Min(S) == CHOOSE x \in S : \A y \in S : x <= y

\* get_trace: SELECT * FROM traces WHERE trace_id = ?
GetTrace(T, id) == {t \in T : t.trace_id = id}

SpansOf(S, id) == {x \in S : x.trace_id = id}

\* save_trace: INSERT OR REPLACE INTO traces.  Replacing a row deletes the old
\* one, and with foreign_keys=ON its spans go with it (ON DELETE CASCADE).
SaveTrace(T, S, row) ==
    [traces |-> {t \in T : t.trace_id # row.trace_id} \cup {row},
     spans  |-> IF GetTrace(T, row.trace_id) # {}
                THEN S \ SpansOf(S, row.trace_id) ELSE S]

\* delete_trace: DELETE FROM traces WHERE trace_id = ?, cascading to spans
DeleteTrace(T, S, id) ==
    [traces |-> T \ GetTrace(T, id), spans |-> S \ SpansOf(S, id)]

\* the rows of table evaluations that reference a trace
EvalsOf(E, id) == {e \in E : e.trace_id = id}

\* evaluations.trace_id REFERENCES traces ON DELETE CASCADE: what DELETE FROM
\* traces leaves of the evaluations
DeleteCascade(E, id) == E \ EvalsOf(E, id)

\* the same for INSERT OR REPLACE INTO traces, which deletes the row it
\* replaces
ReplaceCascade(T, E, id) == IF GetTrace(T, id) # {} THEN DeleteCascade(E, id) ELSE E

\* UPDATE traces SET span_count = (SELECT COUNT(*) ...) WHERE trace_id = ?
Recount(T, S, id) ==
    {IF t.trace_id = id
     THEN [t EXCEPT !.span_count = Cardinality(SpansOf(S, id))] ELSE t : t \in T}

\* an optional dict is <<>> for None and <<d>> for the dict d, a function
\* whose DOMAIN is the set of its keys
Null == <<>>

\* (mutant) the column is never written
DataColumnNull(data) == Null

\* save_span: json.dumps(span.input_data) if span.input_data else None; the
\* column is <<>> for NULL and <<d>> for the JSON text of d.  _row_to_span
\* reads it back with json.loads(row[...]) if row[...] else None.
DataColumn(data) ==
    IF data = Null THEN Null
    ELSE IF DOMAIN data[1] = {} THEN Null
    ELSE data

\* json.dumps(v) for a column that is always written: a text, never empty
JsonText(v) == <<v>>

\* save_span, the values bound to the INSERT
SpanRow(span) ==
    [span EXCEPT !.input_data = DataColumn(@), !.output_data = DataColumn(@),
                 !.attributes = JsonText(@), !.events = JsonText(@)]

\* _row_to_span: json.loads of the four JSON columns, with None for a NULL
\* input_data / output_data, {} for NULL attributes and [] for NULL events
RowToSpan(row) ==
    [row EXCEPT !.input_data = IF @ = Null THEN Null ELSE <<@[1]>>,
                !.output_data = IF @ = Null THEN Null ELSE <<@[1]>>,
                !.attributes = IF @ = Null THEN NoData ELSE @[1],
                !.events = IF @ = Null THEN <<>> ELSE @[1]]

\* get_span: the span of the row with that span_id, or none
GetSpan(S, span_id) == {RowToSpan(x) : x \in {y \in S : y.span_id = span_id}}

\* (mutant) the spans table without its FOREIGN KEY clause
SaveSpanNoForeignKey(T, S, span) ==
    LET S2 == {x \in S : x.span_id # span.span_id} \cup {SpanRow(span)}
    IN  [traces |-> Recount(T, S2, span.trace_id), spans |-> S2, raised |-> FALSE]

\* save_span: INSERT OR REPLACE INTO spans (primary key span_id), which fails
\* with "FOREIGN KEY constraint failed" when the trace row is missing and with
\* "NOT NULL constraint failed" when the span's name is None, then
\* the recount of that trace's spans, in the same transaction.
SaveSpan(T, S, span) ==
    IF GetTrace(T, span.trace_id) = {} \/ span.name = "None"
    THEN [traces |-> T, spans |-> S, raised |-> TRUE]
    ELSE LET S2 == {x \in S : x.span_id # span.span_id} \cup {SpanRow(span)}
         IN  [traces |-> Recount(T, S2, span.trace_id), spans |-> S2,
              raised |-> FALSE]

\* payloads of POST /api/spans: one span, two spans, and two spans of which
\* one has no span_id and one no end_time
StorePayloads ==
    [trace_id : TraceIds,
     spans : {<<[span_id |-> "s1", end_time |-> 1]>>,
              <<[span_id |-> "s1", end_time |-> 1], [span_id |-> "s2", end_time |-> MaxStamp]>>,
              <<[end_time |-> 1], [span_id |-> "s2"]>>}]

\* collector lines 59-74: the trace built for a trace_id not seen before
\* clock is what _utc_now() returns when no span carries a start_time; a
\* duration_ms of 0 is dropped by the test `if s.get("duration_ms")`
NewTraceRow(trace_id, raw_spans, clock) ==
    LET raws == {raw_spans[k] : k \in 1..Len(raw_spans)}
        start_times == {Get(raw, "start_time", NoTime) : raw \in raws} \ {NoTime}
        end_times == {Get(raw, "end_time", NoTime) : raw \in raws} \ {NoTime}
        durations == {Get(raw, "duration_ms", 0) : raw \in raws} \ {0, NoDuration}
    IN  [trace_id |-> trace_id,
         start_time |-> IF start_times # {} THEN Min(start_times) ELSE clock,
         end_time |-> IF end_times # {} THEN Max(end_times) ELSE NoTime,
         duration_ms |-> IF durations # {} THEN Max(durations) ELSE NoDuration,
         status |-> "ok", span_count |-> 0]

\* the values of SpanKind
SpanKinds == {"invocation", "agent_run", "llm_call", "tool_call", "retrieval", "custom"}

\* SpanKind(kind_str), with SpanKind.CUSTOM on ValueError
KindOf(kind_str) == IF kind_str \in SpanKinds THEN kind_str ELSE "custom"

\* raw.get(key) of an optional dict
GetData(raw, key) == IF key \in DOMAIN raw THEN <<raw[key]>> ELSE Null

\* collector lines 85-101: the Span built from one raw span, as the row that
\* save_span writes for it
SpanOfRaw(trace_id, raw) ==
    [span_id |-> Get(raw, "span_id", ""), trace_id |-> trace_id,
     name |-> Get(raw, "name", "unknown"),
     kind |-> KindOf(Get(raw, "kind", "custom")),
     end_time |-> Get(raw, "end_time", NoTime),
     duration_ms |-> Get(raw, "duration_ms", NoDuration),
     status |-> Get(raw, "status", "ok"),
     attributes |-> Get(raw, "attributes", NoData),
     events |-> Get(raw, "events", <<>>),
     input_data |-> DataColumn(GetData(raw, "input_data")),
     output_data |-> DataColumn(GetData(raw, "output_data")),
     error |-> Get(raw, "error", "None")]

\* (mutant) line 54 tests the trace_id only
IngestBeginAnyBatch(payload) ==
    /\ ing.pc \in {"idle", "done"}
    /\ ing' = IF payload.trace_id = ""
              THEN [IngIdle EXCEPT !.pc = "done", !.result = "error",
                                   !.trace_id = payload.trace_id,
                                   !.raw_spans = payload.spans]
              ELSE [pc |-> IF GetTrace(traces, payload.trace_id) # {}
                           THEN "spans" ELSE "save_trace",
                    trace_id |-> payload.trace_id, raw_spans |-> payload.spans,
                    existing |-> GetTrace(traces, payload.trace_id) # {},
                    i |-> 1, accepted |-> 0, result |-> "none"]
    /\ UNCHANGED <<registryVars, evals, traces, spans, trc>>

\* ingest_spans lines 48-57: validation, then get_trace
IngestBegin(payload) ==
    /\ ing.pc \in {"idle", "done"}
    /\ ing' = IF payload.trace_id = "" \/ payload.spans = <<>>
              THEN [IngIdle EXCEPT !.pc = "done", !.result = "error",
                                   !.trace_id = payload.trace_id,
                                   !.raw_spans = payload.spans]
              ELSE [pc |-> IF GetTrace(traces, payload.trace_id) # {}
                           THEN "spans" ELSE "save_trace",
                    trace_id |-> payload.trace_id, raw_spans |-> payload.spans,
                    existing |-> GetTrace(traces, payload.trace_id) # {},
                    i |-> 1, accepted |-> 0, result |-> "none"]
    /\ UNCHANGED <<registryVars, evals, traces, spans, trc>>

\* a call of ingest_spans, while the tracer and other calls go on
IngestStart(payload) == IngestBegin(payload) /\ UNCHANGED pre

\* a call of ingest_spans, with the tables as the call finds them noted
IngestCall(payload) ==
    /\ IngestBegin(payload)
    /\ pre' = [traces |-> traces, spans |-> spans]

\* ingest_spans lines 58-74: no such trace yet, save one
IngestSaveTrace(clock) ==
    /\ ing.pc = "save_trace"
    /\ LET st == SaveTrace(traces, spans, NewTraceRow(ing.trace_id, ing.raw_spans, clock))
       IN  traces' = st.traces /\ spans' = st.spans
    /\ evals' = ReplaceCascade(traces, evals, ing.trace_id)
    /\ ing' = [ing EXCEPT !.pc = "spans"]
    /\ UNCHANGED <<registryVars, pre, trc>>

\* ingest_spans lines 77-106: one turn of the loop; a span that cannot be
\* saved is logged and skipped
IngestSaveSpan ==
    /\ ing.pc = "spans"
    /\ ing.i <= Len(ing.raw_spans)
    /\ LET st == SaveSpan(traces, spans, SpanOfRaw(ing.trace_id, ing.raw_spans[ing.i]))
       IN  /\ traces' = st.traces
           /\ spans' = st.spans
           /\ ing' = [ing EXCEPT !.i = @ + 1,
                                 !.accepted = IF st.raised THEN @ ELSE @ + 1]
    /\ UNCHANGED <<registryVars, evals, pre, trc>>

\* (mutant) lines 108-114 with end_times bound and without the comparison of
\* line 112: the batch's latest end_time is written whatever the row holds
IngestFinishRewind ==
    /\ ing.pc = "spans"
    /\ ing.i > Len(ing.raw_spans)
    /\ LET ends == {Get(ing.raw_spans[k], "end_time", NoTime) :
                        k \in 1..Len(ing.raw_spans)} \ {NoTime}
       IN  traces' = IF ing.existing /\ ends # {}
                     THEN {IF t.trace_id = ing.trace_id
                           THEN [t EXCEPT !.end_time = Max(ends)] ELSE t : t \in traces}
                     ELSE traces
    /\ ing' = [ing EXCEPT !.pc = "done", !.result = "ok"]
    /\ UNCHANGED <<registryVars, evals, pre, spans, trc>>

\* ingest_spans lines 108-116.  When the trace existed at the start and still
\* does, line 110 reads end_times, a local that only the other branch (line
\* 60) assigns: UnboundLocalError, before line 114 can save anything.
IngestFinish ==
    /\ ing.pc = "spans"
    /\ ing.i > Len(ing.raw_spans)
    /\ ing' = [ing EXCEPT
                !.pc = "done",
                !.result = IF ing.existing /\ GetTrace(traces, ing.trace_id) # {}
                           THEN "raised" ELSE "ok"]
    /\ UNCHANGED <<registryVars, evals, pre, traces, spans, trc>>

\* DELETE /api/traces/{trace_id}
DeleteTraceCall(id) ==
    /\ GetTrace(traces, id) # {}
    /\ LET st == DeleteTrace(traces, spans, id)
       IN  traces' = st.traces /\ spans' = st.spans
    /\ evals' = DeleteCascade(evals, id)
    /\ UNCHANGED <<registryVars, pre, ing, trc>>

\* tracer.trace(...): a new _TraceContext with fresh ids and its root span
TraceOpen(tid, sid, t) ==
    /\ trc.pc = "idle"
    /\ GetTrace(traces, tid) = {}
    /\ \A x \in spans : x.span_id # sid
    /\ trc' = [pc |-> "open",
               trace |-> [trace_id |-> tid, start_time |-> t, end_time |-> NoTime,
                          duration_ms |-> NoDuration, status |-> "ok",
                          span_count |-> 0],
               spans |-> <<[span_id |-> sid, trace_id |-> tid, name |-> "request",
                            kind |-> "invocation",
                            end_time |-> NoTime, duration_ms |-> NoDuration,
                            status |-> "ok",
                            attributes |-> NoData, events |-> <<>>,
                            input_data |-> Null, output_data |-> Null,
                            error |-> "None"]>>,
               open |-> <<>>, i |-> 0, exc |-> "none", seen |-> "none"]
    /\ UNCHANGED <<registryVars, evals, pre, traces, spans, ing>>

\* ctx.span(...) leaving its with block at the clock reading t at which it
\* was entered, with an Exception of its body (failed) or without: the child
\* span is marked, stamped and collected
TraceSpan(sid, t, failed) ==
    /\ trc.pc = "open"
    /\ Len(trc.spans) < MaxSpans
    /\ \A x \in spans : x.span_id # sid
    /\ \A k \in 1..Len(trc.spans) : trc.spans[k].span_id # sid
    /\ trc' = [trc EXCEPT !.spans = Append(@,
                  [span_id |-> sid, trace_id |-> trc.trace.trace_id, name |-> "request",
                   kind |-> "custom",
                   end_time |-> t, duration_ms |-> 0,
                   status |-> IF failed THEN "error" ELSE "ok",
                   attributes |-> NoData, events |-> <<>>,
                   input_data |-> Null, output_data |-> Null,
                   error |-> IF failed THEN "E" ELSE "None"])]
    /\ UNCHANGED <<registryVars, evals, pre, traces, spans, ing>>

\* the kinds of exception a traced operation may raise: one that `except
\* Exception` catches, and one it does not (KeyboardInterrupt, CancelledError)
Raised == {"Exception", "BaseException"}

\* the with block of tracer.trace(...) is left, with exception exc or none:
\* lines 44-48 mark the trace and the root span, then _finalize lines 125-137
\* stamp the root span and the trace, count the spans and save the trace
TraceClose(t, exc) ==
    /\ trc.pc = "open"
    /\ t >= trc.trace.start_time
    /\ LET row == [trc.trace EXCEPT !.end_time = t,
                                    !.duration_ms = t - trc.trace.start_time,
                                    !.status = IF exc = "Exception" THEN "error" ELSE "ok",
                                    !.span_count = Len(trc.spans)]
           st == SaveTrace(traces, spans, row)
       IN  /\ traces' = st.traces
           /\ spans' = st.spans
           /\ trc' = [trc EXCEPT
                        !.pc = "saving", !.trace = row, !.i = 1, !.exc = exc,
                        !.spans[1] = [@ EXCEPT
                            !.end_time = t,
                            !.duration_ms = t - trc.trace.start_time,
                            !.status = IF exc = "Exception" THEN "error" ELSE "ok",
                            !.error = IF exc = "Exception" THEN "E" ELSE "None"]]
    /\ UNCHANGED <<registryVars, pre, ing>>
    /\ evals' = ReplaceCascade(traces, evals, trc.trace.trace_id)

\* the scope is left with exception seen, or with none
TraceOutcome(seen, leave) ==
    IF leave THEN TrcIdle ELSE [trc EXCEPT !.pc = "done", !.seen = seen]

\* _finalize lines 138-139: one turn of the loop.  An exception of save_span
\* leaves _finalize, which runs in the finally of trace(), and so replaces the
\* exception under way; after the last span that one, if any, goes on.
TraceSaveSpanStep(leave) ==
    /\ trc.pc = "saving"
    /\ LET st == SaveSpan(traces, spans, trc.spans[trc.i])
       IN  /\ traces' = st.traces
           /\ spans' = st.spans
           /\ trc' = IF st.raised
                     THEN TraceOutcome("IntegrityError", leave)
                     ELSE IF trc.i = Len(trc.spans)
                     THEN TraceOutcome(trc.exc, leave)
                     ELSE [trc EXCEPT !.i = @ + 1]
    /\ UNCHANGED <<registryVars, evals, pre, ing>>

\* a turn of the loop; after the last one the caller goes on at once
TraceSaveSpan == TraceSaveSpanStep(TRUE)

\* a turn of the loop; after the last one what the caller sees is kept
TraceSaveSpanSeen == TraceSaveSpanStep(FALSE)

\* the caller of the scope goes on, or handles what came out of it
TraceReturn ==
    /\ trc.pc = "done"
    /\ trc' = TrcIdle
    /\ UNCHANGED <<registryVars, evals, pre, traces, spans, ing>>

NextStore ==
    \/ \E payload \in StorePayloads : IngestStart(payload)
    \/ IngestSaveTrace(1)
    \/ IngestSaveSpan
    \/ IngestFinish
    \/ \E id \in TraceIds : DeleteTraceCall(id)
    \/ \E tid \in TraceIds, sid \in SpanIds : TraceOpen(tid, sid, 1)
    \/ \E sid \in SpanIds, t \in Stamps : TraceSpan(sid, t, FALSE)
    \/ \E t \in Stamps : TraceClose(t, "none")
    \/ TraceSaveSpan

SpecStore == Init /\ [][NextStore]_vars

\* C10: in every state, between the store calls of a tracer close or of an
\* ingest too, every span row's trace_id is the trace_id of a trace row.
C10_SpanHasTrace == \A x \in spans : GetTrace(traces, x.trace_id) # {}

\* an ingest and a tracer close are both part-way through their spans, each
\* with a span already in the table
C10_Witness ==
    /\ ing.pc = "spans" /\ ing.i <= Len(ing.raw_spans)
    /\ SpansOf(spans, ing.trace_id) # {}
    /\ trc.pc = "saving"
    /\ SpansOf(spans, trc.trace.trace_id) # {}
    /\ trc.trace.trace_id # ing.trace_id


\* C11: in every state, between the writes of a tracer close or of an ingest
\* too, each trace row's span_count is the number of span rows with its
\* trace_id.
C11_SpanCountMatches ==
    \A t \in traces : t.span_count = Cardinality(SpansOf(spans, t.trace_id))


(***************************************************************************)
(* The collector alone: one ingest_spans call after the other, DELETE      *)
(* between calls.                                                          *)
(***************************************************************************)
\* raw spans: complete ones, one that repeats the id s1 with a later end and
\* no start, one without span_id, one whose name is null
IngestRaws ==
    {[span_id |-> "s1", start_time |-> 1, end_time |-> 1, duration_ms |-> 0],
     [span_id |-> "s2", start_time |-> MaxStamp, end_time |-> MaxStamp, duration_ms |-> 1],
     [span_id |-> "s1", end_time |-> MaxStamp],
     [end_time |-> 1],
     [span_id |-> "s2", name |-> "None"]}

RECURSIVE SeqsUpTo(_, _)
SeqsUpTo(S, n) ==
    IF n = 0 THEN {<<>>}
    ELSE LET shorter == SeqsUpTo(S, n - 1)
         IN  shorter \cup {Append(q, x) : q \in {r \in shorter : Len(r) = n - 1}, x \in S}

\* every batch of up to MaxBatch raw spans for trace t1; for t2 a span with the
\* id s1 and one without span_id; a payload without trace_id
IngestPayloads ==
    [trace_id : {"t1"}, spans : SeqsUpTo(IngestRaws, MaxBatch)]
    \cup [trace_id : {"t2"},
          spans : {<<[span_id |-> "s1", end_time |-> MaxStamp]>>, <<[end_time |-> 1]>>}]
    \cup [trace_id : {""}, spans : {<<[end_time |-> 1]>>}]

\* the caller has the answer of ingest_spans, or its exception
IngestReturn ==
    /\ ing.pc = "done"
    /\ ing' = IngIdle
    /\ pre' = NoTables
    /\ UNCHANGED <<registryVars, evals, traces, spans, trc>>

\* DELETE /api/traces/{trace_id} while no ingest is under way
DeleteBetweenCalls(id) ==
    /\ ing.pc = "idle"
    /\ DeleteTraceCall(id)

NextIngest ==
    \/ \E payload \in IngestPayloads : IngestCall(payload)
    \/ \E clock \in Stamps : IngestSaveTrace(clock)
    \/ IngestSaveSpan
    \/ IngestFinish
    \/ IngestReturn
    \/ \E id \in TraceIds : DeleteBetweenCalls(id)

SpecIngest == Init /\ [][NextIngest]_vars


\* the spans ingest_spans builds from the batch of the call at hand
BatchSpans == {SpanOfRaw(ing.trace_id, ing.raw_spans[k]) : k \in 1..Len(ing.raw_spans)}

SpanIdsOf(S) == {x.span_id : x \in S}

\* the call at hand is over and was not turned away at line 55
IngestOver == ing.pc = "done" /\ ing.result # "error"

\* C12: a finished ingest leaves span_count at the number of span rows of the
\* trace; and an ingest whose span_ids were all persisted for the trace
\* already (the same payload a second time) completes, leaves those spans
\* persisted and span_count where it was.
C12_ReingestKeepsCount ==
    LET before == SpansOf(pre.spans, ing.trace_id)
    IN  /\ (IngestOver /\ ing.result = "ok") =>
              \A t \in GetTrace(traces, ing.trace_id) :
                  t.span_count = Cardinality(SpansOf(spans, ing.trace_id))
        /\ (IngestOver /\ SpanIdsOf(BatchSpans) \subseteq SpanIdsOf(before)) =>
              /\ ing.result = "ok"
              /\ SpanIdsOf(BatchSpans) \subseteq SpanIdsOf(SpansOf(spans, ing.trace_id))
              /\ \A t \in GetTrace(traces, ing.trace_id) :
                    t.span_count = Cardinality(before)


\* the end_times of the batch of the call at hand
BatchEnds == {x.end_time : x \in BatchSpans} \ {NoTime}

\* C13: an ingest for a trace that had a row returns its result, and leaves
\* the row's end_time at the maximum of what it was and the batch's latest.
C13_EndTimeAdvances ==
    (IngestOver /\ ing.existing) =>
        /\ ing.result = "ok"
        /\ \A p \in GetTrace(pre.traces, ing.trace_id) :
           \A t \in GetTrace(traces, ing.trace_id) :
               t.end_time = Max({p.end_time} \cup BatchEnds)

\* C14: from one state of the store to the next, no trace row's end_time
\* decreases, whatever the ingest_spans calls.
C14_EndTimeMonotonic ==
    [][\A t \in traces : \A u \in GetTrace(traces', t.trace_id) :
            u.end_time >= t.end_time]_vars

\* an ingest for an existing trace is over whose end_times are all earlier
\* than the stored one, which is still there
C14_Witness ==
    /\ IngestOver /\ ing.existing /\ BatchEnds # {}
    /\ \E p \in GetTrace(pre.traces, ing.trace_id) :
        /\ \A e \in BatchEnds : e < p.end_time
        /\ \E t \in GetTrace(traces, ing.trace_id) : t.end_time = p.end_time

\* the spans of the batch that cannot be saved
Malformed == {k \in 1..Len(ing.raw_spans) : Get(ing.raw_spans[k], "name", "unknown") = "None"}

\* C15: a batch with one malformed span and a trace_id: the call returns,
\* accepted is the number of the other spans, and each of them is persisted,
\* whether or not the trace had a row.
C15_PartialFailure ==
    (ing.pc = "done" /\ ing.trace_id # "" /\ Cardinality(Malformed) = 1) =>
        /\ ing.result = "ok"
        /\ ing.accepted = Len(ing.raw_spans) - 1
        /\ \A k \in (1..Len(ing.raw_spans)) \ Malformed :
               Get(ing.raw_spans[k], "span_id", "")
                   \in SpanIdsOf(SpansOf(spans, ing.trace_id))

\* C16: a call without trace_id or without spans ends at once with an error
\* and accepted = 0, and the step leaves both tables as they were.
C16_FailFast ==
    [][(ing' # ing /\ ing'.pc # "idle"
            /\ (ing'.trace_id = "" \/ ing'.raw_spans = <<>>)) =>
        /\ ing'.pc = "done" /\ ing'.result = "error" /\ ing'.accepted = 0
        /\ traces' = traces /\ spans' = spans]_vars

\* a call without spans was turned away while the tables hold rows
C16_Witness ==
    /\ ing.pc = "done" /\ ing.result = "error"
    /\ ing.trace_id = "t1" /\ ing.raw_spans = <<>>
    /\ GetTrace(traces, "t1") # {} /\ spans # {}

\* C17: right after the save_trace of an ingest for a new trace_id, and before
\* any span of the call is saved, the trace has one row, with the batch's
\* least start_time, latest end_time and greatest duration_ms.
C17_SynthesizedTrace ==
    LET raws == {ing.raw_spans[k] : k \in 1..Len(ing.raw_spans)}
        starts == {raw.start_time : raw \in {r \in raws : "start_time" \in DOMAIN r}}
        ends == {raw.end_time : raw \in {r \in raws : "end_time" \in DOMAIN r}}
        durs == {raw.duration_ms : raw \in {r \in raws : "duration_ms" \in DOMAIN r}}
    IN  (ing.pc = "spans" /\ ~ing.existing /\ ing.i = 1) =>
            /\ Cardinality(GetTrace(traces, ing.trace_id)) = 1
            /\ SpansOf(spans, ing.trace_id) = {}
            /\ \A t \in GetTrace(traces, ing.trace_id) :
                /\ starts # {} => t.start_time = Min(starts)
                /\ ends # {} => t.end_time = Max(ends)
                /\ durs # {} => t.duration_ms = Max(durs)


(***************************************************************************)
(* The tracer alone, then the tracer with DELETE requests in between its   *)
(* store calls.                                                            *)
(***************************************************************************)
\* DELETE /api/traces/{trace_id} while no trace scope is open or closing
DeleteAfterTrace(id) ==
    /\ trc.pc = "idle"
    /\ DeleteTraceCall(id)

NextTracer ==
    \/ \E tid \in TraceIds, sid \in SpanIds, t \in Stamps : TraceOpen(tid, sid, t)
    \/ \E sid \in SpanIds, t \in Stamps, failed \in BOOLEAN : TraceSpan(sid, t, failed)
    \/ \E t \in Stamps, exc \in Raised \cup {"none"} : TraceClose(t, exc)
    \/ TraceSaveSpanSeen
    \/ TraceReturn
    \/ \E id \in TraceIds : DeleteAfterTrace(id)

SpecTracer == Init /\ [][NextTracer]_vars

NextTracerRace ==
    \/ \E tid \in TraceIds, sid \in SpanIds, t \in Stamps : TraceOpen(tid, sid, t)
    \/ \E sid \in SpanIds, t \in Stamps, failed \in BOOLEAN : TraceSpan(sid, t, failed)
    \/ \E t \in Stamps, exc \in Raised \cup {"none"} : TraceClose(t, exc)
    \/ TraceSaveSpanSeen
    \/ TraceReturn
    \/ \E id \in TraceIds : DeleteTraceCall(id)

SpecTracerRace == Init /\ [][NextTracerRace]_vars

\* C18: when the operation in a trace scope raised, then after the scope's
\* exit the trace row has status error, the root span's row has status error
\* and the failure message, and every collected span is persisted.
C18_FailureRecorded ==
    (trc.pc = "done" /\ trc.exc \in Raised) =>
        /\ \E row \in GetTrace(traces, trc.trace.trace_id) : row.status = "error"
        /\ \E x \in spans : /\ x.span_id = trc.spans[1].span_id
                            /\ x.status = "error"
                            /\ x.error = "E"
        /\ \A k \in 1..Len(trc.spans) : SpanRow(trc.spans[k]) \in spans

\* C19: when the operation in a trace scope raised E, E is what leaves the
\* scope, also when a store call of the scope's exit failed.
C19_FailurePropagates ==
    (trc.pc = "done" /\ trc.exc \in Raised) => trc.seen = trc.exc


(***************************************************************************)
(* Feature flags and parameters (feature_flags.py, db.py).  A value is     *)
(* stored as its JSON text, None as NULL.                                  *)
(***************************************************************************)
Scopes == {"a1", "_global"}
Names == {"n1", "n2"}
Values == {"None", "", "x"}
RowIds == {"r1", "r2", "r3", "r4"}

\* json.dumps(value)
JsonDumps(v) == IF v = "" THEN "\"\"" ELSE "\"x\""

\* save_flag / save_param: json.dumps(value) if value is not None else None
ValueColumn(v) == IF v = "None" THEN "NULL" ELSE JsonDumps(v)

\* _row_to_flag / _row_to_param: json.loads(row["value"]) if row["value"] else None
ValueOfColumn(c) ==
    IF c = "NULL" \/ c = "" THEN "None"
    ELSE CHOOSE v \in Values \ {"None"} : JsonDumps(v) = c

\* _new_id(): an id no row of the table has
NewId(tbl) == CHOOSE id \in RowIds : \A r \in tbl : r.id # id

\* the rows in the order ORDER BY name ASC gives them
RECURSIVE ByName(_)
ByName(rows) ==
    IF rows = {} THEN <<>>
    ELSE LET first == CHOOSE r \in rows : \A q \in rows : r.name = "n1" \/ q.name # "n1"
         IN  <<first>> \o ByName(rows \ {first})

\* get_flags / get_params: SELECT ... WHERE agent_id = ? ORDER BY name ASC
GetRows(tbl, agent_id) == ByName({r \in tbl : r.agent_id = agent_id})

\* (mutant) only the row with the same primary key gives way
SaveRowPrimaryKeyOnly(tbl, row) == {r \in tbl : r.id # row.id} \cup {row}

\* save_flag / save_param: INSERT OR REPLACE; the row with the same primary
\* key and the row with the same (agent_id, name) give way
SaveRow(tbl, row) ==
    {r \in tbl : r.id # row.id /\ ~(r.agent_id = row.agent_id /\ r.name = row.name)}
    \cup {row}

\* delete_flag / delete_param: DELETE ... WHERE flag_id = ?
DeleteRow(tbl, id) == {r \in tbl : r.id # id}

\* the loop `for f in flags: if f.name == name: return f`, from position k
RECURSIVE FirstNamed(_, _, _)
FirstNamed(rows, name, k) ==
    IF k > Len(rows) THEN {}
    ELSE IF rows[k].name = name THEN {rows[k]}
    ELSE FirstNamed(rows, name, k + 1)

\* _find_flag / _find_param
Find(tbl, agent_id, name) == FirstNamed(GetRows(tbl, agent_id), name, 1)

\* (mutant) the global entry is looked up before the agent's
IsEnabledGlobalFirst(tbl, agent_id, name, default) ==
    LET own == FirstNamed(GetRows(tbl, agent_id), name, 1)
        global == FirstNamed(GetRows(tbl, "_global"), name, 1)
    IN  IF global # {} THEN (CHOOSE f \in global : TRUE).enabled
        ELSE IF own # {} THEN (CHOOSE f \in own : TRUE).enabled
        ELSE default

\* is_enabled
IsEnabled(tbl, agent_id, name, default) ==
    LET own == FirstNamed(GetRows(tbl, agent_id), name, 1)
        global == FirstNamed(GetRows(tbl, "_global"), name, 1)
    IN  IF own # {} THEN (CHOOSE f \in own : TRUE).enabled
        ELSE IF global # {} THEN (CHOOSE f \in global : TRUE).enabled
        ELSE default

\* get_param_value
GetParamValue(tbl, agent_id, name, default) ==
    LET own == FirstNamed(GetRows(tbl, agent_id), name, 1)
        global == FirstNamed(GetRows(tbl, "_global"), name, 1)
    IN  IF own # {} THEN ValueOfColumn((CHOOSE f \in own : TRUE).value)
        ELSE IF global # {} THEN ValueOfColumn((CHOOSE f \in global : TRUE).value)
        ELSE default

\* set_flag
SetFlag(agent_id, name, enabled, value) ==
    /\ LET existing == Find(flags, agent_id, name)
       IN  \/ /\ existing # {}
              /\ flags' = SaveRow(flags,
                    [(CHOOSE f \in existing : TRUE) EXCEPT
                        !.enabled = enabled, !.value = ValueColumn(value)])
           \/ /\ existing = {}
              /\ \E id \in RowIds : \A r \in flags : r.id # id
              /\ flags' = SaveRow(flags,
                    [id |-> NewId(flags), agent_id |-> agent_id, name |-> name,
                     enabled |-> enabled, value |-> ValueColumn(value)])
    /\ UNCHANGED <<now, agents, lastCall, raceVars, monVars, pureVars, storeVars, promptVars, evalVars, params, setters>>

\* delete_flag
DeleteFlag(id) ==
    /\ \E r \in flags : r.id = id
    /\ flags' = DeleteRow(flags, id)
    /\ UNCHANGED <<now, agents, lastCall, raceVars, monVars, pureVars, storeVars, promptVars, evalVars, params, setters>>

\* set_param
SetParam(agent_id, name, value) ==
    /\ LET existing == Find(params, agent_id, name)
       IN  \/ /\ existing # {}
              /\ params' = SaveRow(params,
                    [(CHOOSE f \in existing : TRUE) EXCEPT !.value = ValueColumn(value)])
           \/ /\ existing = {}
              /\ \E id \in RowIds : \A r \in params : r.id # id
              /\ params' = SaveRow(params,
                    [id |-> NewId(params), agent_id |-> agent_id, name |-> name,
                     value |-> ValueColumn(value)])
    /\ UNCHANGED <<now, agents, lastCall, raceVars, monVars, pureVars, storeVars, promptVars, evalVars, flags, setters>>

\* delete_param
DeleteParam(id) ==
    /\ \E r \in params : r.id = id
    /\ params' = DeleteRow(params, id)
    /\ UNCHANGED <<now, agents, lastCall, raceVars, monVars, pureVars, storeVars, promptVars, evalVars, flags, setters>>

\* the (enabled, value) pairs that set_flag is called with
FlagInputs ==
    {[enabled |-> TRUE, value |-> "None"], [enabled |-> FALSE, value |-> "None"],
     [enabled |-> FALSE, value |-> "x"]}

NextFlags ==
    \/ \E a \in Scopes, n \in Names, f \in FlagInputs :
            SetFlag(a, n, f.enabled, f.value)
    \/ \E id \in RowIds : DeleteFlag(id)
    \/ \E a \in Scopes, v \in Values : SetParam(a, "n1", v)
    \/ \E id \in RowIds : DeleteParam(id)

SpecFlags == Init /\ [][NextFlags]_vars


\* the entry of one scope under one name
Entry(tbl, agent_id, name) == {r \in tbl : r.agent_id = agent_id /\ r.name = name}

\* the callers of is_enabled and get_param_value: the scopes that hold
\* entries and an agent that holds none
Callers == Scopes \cup {"a2"}

\* C20: after any sequence of set and delete operations, is_enabled and
\* get_param_value return the value of the agent-scoped entry whenever one
\* exists (also when a global entry of the same name exists), the value of the
\* "_global" entry when only that one exists, and the default when neither
\* exists.
C20_TwoTierResolution ==
    \A a \in Callers, n \in Names :
        /\ \A d \in BOOLEAN :
            LET own == Entry(flags, a, n)
                global == Entry(flags, "_global", n)
                got == IsEnabled(flags, a, n, d)
            IN  /\ \A r \in own : got = r.enabled
                /\ own = {} => \A r \in global : got = r.enabled
                /\ (own = {} /\ global = {}) => got = d
        /\ \A d \in Values \cup {"d"} :
            LET own == Entry(params, a, n)
                global == Entry(params, "_global", n)
                got == GetParamValue(params, a, n, d)
            IN  /\ \A r \in own : \A v \in Values : ValueColumn(v) = r.value => got = v
                /\ own = {} => \A r \in global :
                        \A v \in Values : ValueColumn(v) = r.value => got = v
                /\ (own = {} /\ global = {}) => got = d

\* an agent-scoped and a global entry of one name disagree, for a flag and
\* for a parameter, and an entry of another name sorts before the flag
C20_Witness ==
    /\ \E r \in Entry(flags, "a1", "n2"), g \in Entry(flags, "_global", "n2") :
            r.enabled # g.enabled
    /\ Entry(flags, "a1", "n1") # {}
    /\ \E r \in Entry(params, "a1", "n1"), g \in Entry(params, "_global", "n1") :
            r.value = ValueColumn("") /\ g.value = ValueColumn("x")


(***************************************************************************)
(* The merged listings get_flags and get_params of the service.  A dict is *)
(* a function whose DOMAIN is the set of its keys.                         *)
(***************************************************************************)
NoEntries == [n \in {} |-> "None"]

\* result[key] = item
Put(result, key, item) ==
    [n \in DOMAIN result \cup {key} |-> IF n = key THEN item ELSE result[n]]

\* {"enabled": f.enabled, "value": f.value} of a row read by _row_to_flag
FlagItem(f) == [enabled |-> f.enabled, value |-> ValueOfColumn(f.value)]

\* for f in rows: result[f.name] = {"enabled": f.enabled, "value": f.value}
RECURSIVE PutFlags(_, _, _)
PutFlags(result, rows, k) ==
    IF k > Len(rows) THEN result
    ELSE PutFlags(Put(result, rows[k].name, FlagItem(rows[k])), rows, k + 1)

\* for p in rows: result[p.name] = p.value
RECURSIVE PutParams(_, _, _)
PutParams(result, rows, k) ==
    IF k > Len(rows) THEN result
    ELSE PutParams(Put(result, rows[k].name, ValueOfColumn(rows[k].value)), rows, k + 1)

\* (mutant) the global entries are written after the agent's
GetFlagsGlobalLast(tbl, agent_id, include_global) ==
    LET own == PutFlags(NoEntries, GetRows(tbl, agent_id), 1)
    IN  IF include_global /\ agent_id # "_global"
        THEN PutFlags(own, GetRows(tbl, "_global"), 1)
        ELSE own

\* FeatureFlagService.get_flags
GetFlags(tbl, agent_id, include_global) ==
    LET result == IF include_global /\ agent_id # "_global"
                  THEN PutFlags(NoEntries, GetRows(tbl, "_global"), 1)
                  ELSE NoEntries
    IN  PutFlags(result, GetRows(tbl, agent_id), 1)

\* FeatureFlagService.get_params
GetParams(tbl, agent_id, include_global) ==
    LET result == IF include_global /\ agent_id # "_global"
                  THEN PutParams(NoEntries, GetRows(tbl, "_global"), 1)
                  ELSE NoEntries
    IN  PutParams(result, GetRows(tbl, agent_id), 1)

\* the names a listing has to show: the agent's, and with include_global the
\* global ones
Listed(tbl, agent_id, include_global) ==
    {n \in Names : Entry(tbl, agent_id, n) # {}
                   \/ (include_global /\ Entry(tbl, "_global", n) # {})}

\* C21: get_flags and get_params return a merged map: a name present in both
\* scopes shows the agent-scoped entry, a name only in "_global" appears iff
\* include_global is true, with include_global false only agent-scoped
\* entries appear; the enabled value of every listed flag equals
\* is_enabled(agent, name).
C21_MergedListing ==
    \A a \in Callers, g \in BOOLEAN :
        /\ LET m == GetFlags(flags, a, g)
           IN  /\ DOMAIN m = Listed(flags, a, g)
               /\ \A n \in DOMAIN m :
                    /\ \A r \in Entry(flags, a, n) : m[n] = FlagItem(r)
                    /\ Entry(flags, a, n) = {} =>
                            \A r \in Entry(flags, "_global", n) : m[n] = FlagItem(r)
                    /\ \A d \in BOOLEAN : m[n].enabled = IsEnabled(flags, a, n, d)
        /\ LET m == GetParams(params, a, g)
           IN  /\ DOMAIN m = Listed(params, a, g)
               /\ \A n \in DOMAIN m :
                    /\ \A r \in Entry(params, a, n) : m[n] = ValueOfColumn(r.value)
                    /\ Entry(params, a, n) = {} =>
                            \A r \in Entry(params, "_global", n) :
                                m[n] = ValueOfColumn(r.value)

\* both scopes hold flag n2 with different items, only "_global" holds flag
\* n1, and both scopes hold parameter n1 with different values
C21_Witness ==
    /\ \E r \in Entry(flags, "a1", "n2"), q \in Entry(flags, "_global", "n2") :
            r.enabled # q.enabled /\ r.value # q.value
    /\ Entry(flags, "a1", "n1") = {}
    /\ Entry(flags, "_global", "n1") # {}
    /\ "n1" \in DOMAIN GetFlags(flags, "a1", TRUE)
    /\ \E r \in Entry(params, "a1", "n1"), q \in Entry(params, "_global", "n1") :
            r.value # q.value


(***************************************************************************)
(* set_flag and set_param step by step: _find_flag / _find_param reads the *)
(* table, save_flag / save_param writes it, and other threads run in       *)
(* between.                                                                *)
(***************************************************************************)
\* the (enabled, value) pairs and the values of the racing calls
RaceInputs ==
    {[enabled |-> TRUE, value |-> "None"], [enabled |-> FALSE, value |-> "x"]}
RaceValues == {"None", "x"}

\* _new_id(): an id that no row has and no thread holds
FreshIds(tbl) ==
    {id \in RowIds : /\ \A r \in tbl : r.id # id
                     /\ \A t \in Threads : \A x \in setters[t].existing : x.id # id}

\* what a save did: it updated the row found, created the first row of its
\* key, or replaced a row another call had created since the lookup
Outcome(tbl, c) ==
    IF c.existing # {} THEN "updated"
    ELSE IF Entry(tbl, c.agent_id, c.name) # {} THEN "replaced"
    ELSE "created"

\* set_flag, line 26: existing = self._find_flag(agent_id, name)
SetFlagFind(t, agent_id, name, enabled, value) ==
    /\ setters[t].pc = "idle"
    /\ setters' = [setters EXCEPT ![t] =
            [pc |-> "flag", agent_id |-> agent_id, name |-> name,
             enabled |-> enabled, value |-> value,
             existing |-> Find(flags, agent_id, name), last |-> "none"]]
    /\ UNCHANGED <<now, agents, lastCall, raceVars, monVars, pureVars, storeVars, promptVars, evalVars,
                   flags, params>>

\* set_flag, lines 27-46: save the row found, or a new one
SetFlagSave(t) ==
    /\ setters[t].pc = "flag"
    /\ LET c == setters[t]
       IN  /\ \/ /\ c.existing # {}
                 /\ flags' = SaveRow(flags,
                        [(CHOOSE f \in c.existing : TRUE) EXCEPT
                            !.enabled = c.enabled, !.value = ValueColumn(c.value)])
              \/ /\ c.existing = {}
                 /\ FreshIds(flags) # {}
                 /\ flags' = SaveRow(flags,
                        [id |-> CHOOSE id \in FreshIds(flags) : TRUE,
                         agent_id |-> c.agent_id, name |-> c.name,
                         enabled |-> c.enabled, value |-> ValueColumn(c.value)])
           /\ setters' = [setters EXCEPT ![t] =
                [SetIdle EXCEPT !.last = Outcome(flags, c)]]
    /\ UNCHANGED <<now, agents, lastCall, raceVars, monVars, pureVars, storeVars, promptVars, evalVars, params>>

\* set_param, line 96: existing = self._find_param(agent_id, name)
SetParamFind(t, agent_id, name, value) ==
    /\ setters[t].pc = "idle"
    /\ setters' = [setters EXCEPT ![t] =
            [pc |-> "param", agent_id |-> agent_id, name |-> name,
             enabled |-> FALSE, value |-> value,
             existing |-> Find(params, agent_id, name), last |-> "none"]]
    /\ UNCHANGED <<now, agents, lastCall, raceVars, monVars, pureVars, storeVars, promptVars, evalVars,
                   flags, params>>

\* set_param, lines 97-115: save the row found, or a new one
SetParamSave(t) ==
    /\ setters[t].pc = "param"
    /\ LET c == setters[t]
       IN  /\ \/ /\ c.existing # {}
                 /\ params' = SaveRow(params,
                        [(CHOOSE f \in c.existing : TRUE) EXCEPT
                            !.value = ValueColumn(c.value)])
              \/ /\ c.existing = {}
                 /\ FreshIds(params) # {}
                 /\ params' = SaveRow(params,
                        [id |-> CHOOSE id \in FreshIds(params) : TRUE,
                         agent_id |-> c.agent_id, name |-> c.name,
                         value |-> ValueColumn(c.value)])
           /\ setters' = [setters EXCEPT ![t] =
                [SetIdle EXCEPT !.last = Outcome(params, c)]]
    /\ UNCHANGED <<now, agents, lastCall, raceVars, monVars, pureVars, storeVars, promptVars, evalVars, flags>>

NextFlagsRace ==
    \/ \E t \in Threads, a \in Scopes, f \in RaceInputs :
            SetFlagFind(t, a, "n1", f.enabled, f.value)
    \/ \E t \in Threads : SetFlagSave(t)
    \/ \E id \in RowIds : DeleteFlag(id)
    \/ \E t \in Threads, v \in RaceValues : SetParamFind(t, "a1", "n1", v)
    \/ \E t \in Threads : SetParamSave(t)
    \/ \E id \in RowIds : DeleteParam(id)

SpecFlagsRace == Init /\ [][NextFlagsRace]_vars


\* UNIQUE(agent_id, name)
OnePerKey(tbl) ==
    \A r, q \in tbl : (r.agent_id = q.agent_id /\ r.name = q.name) => r = q

\* the set call of thread t, on table tbl, returns in this step
Saves(t, kind) == setters[t].pc = kind /\ setters'[t].pc = "idle"

\* a returning set call that had found an entry leaves its key with that
\* entry's id; when the entry found is still in the table and already holds
\* the arguments of the call, the call leaves the table as it is
UpsertStep(t, kind, before, after) ==
    Saves(t, kind) =>
        LET c == setters[t]
        IN  \A x \in c.existing :
                /\ \E r \in Entry(after, c.agent_id, c.name) : r.id = x.id
                /\ (x \in before /\ ValueColumn(c.value) = x.value
                    /\ (kind = "flag" => c.enabled = x.enabled)) => after = before

\* C22: set_flag and set_param are idempotent upserts keyed by (agent_id,
\* name): in every reachable state, also after concurrent set calls for the
\* same key, each table holds at most one row per (agent_id, name); a set
\* with the arguments the entry already has leaves the same entry (same id,
\* same value), and a set on an existing key keeps the entry's id.
C22_IdempotentUpsert ==
    /\ [](OnePerKey(flags) /\ OnePerKey(params))
    /\ [][\A t \in Threads : /\ UpsertStep(t, "flag", flags, flags')
                             /\ UpsertStep(t, "param", params, params')]_vars

\* two set calls for one key both found no entry and both saved: the later
\* save replaced the row of the earlier one; and a set call updated the
\* parameter it had found
C22_Witness ==
    /\ setters[1].last = "replaced"
    /\ setters[2].last = "updated"
    /\ Entry(flags, "a1", "n1") # {}
    /\ Entry(flags, "_global", "n1") # {}
    /\ params # {}


(***************************************************************************)
(* The evaluator (evaluator.py).  A score is an integer, the number of     *)
(* ten-thousandths: round(x, 4) of a score between 0 and 1.                *)
(***************************************************************************)
ScoreUnit == 10000

\* round(num / den, 4), in ten-thousandths
Round4(num, den) == (2 * ScoreUnit * num + den) \div (2 * den)

\* the values of EvalMetric
EvalMetrics == {"answer_relevancy", "coherence", "completeness", "harmfulness"}

\* dict.update
Update(d, e) ==
    [k \in DOMAIN d \cup DOMAIN e |-> IF k \in DOMAIN e THEN e[k] ELSE d[k]]

RECURSIVE SeqOfSet(_)
SeqOfSet(S) ==
    IF S = {} THEN <<>>
    ELSE LET x == CHOOSE y \in S : TRUE IN <<x>> \o SeqOfSet(S \ {x})

\* list_spans_by_trace: the rows of the trace, in one order (the column
\* start_time, which orders them, is not part of the rows here)
ListSpansByTrace(S, id) == SeqOfSet(SpansOf(S, id))

\* _extract_text with a dict of strings: the first candidate key, from
\* position k on, whose value is not empty
RECURSIVE ExtractText(_, _, _)
ExtractText(data, keys, k) ==
    IF k > Len(keys) THEN ""
    ELSE IF keys[k] \in DOMAIN data /\ data[keys[k]] # "" THEN data[keys[k]]
    ELSE ExtractText(data, keys, k + 1)

QuestionKeys == <<"question", "prompt", "query", "message", "input">>
AnswerKeys == <<"response", "answer", "output", "content">>

\* _extract_qa: the loop over the spans from position k on, with the
\* question and the answer found so far
RECURSIVE ExtractQA(_, _, _)
ExtractQA(rows, k, qa) ==
    IF k > Len(rows) THEN qa
    ELSE LET span == rows[k]
             q == IF span.kind = "invocation" /\ span.input_data # Null
                  THEN ExtractText(span.input_data[1], QuestionKeys, 1) ELSE ""
             a == IF span.kind = "invocation" /\ span.output_data # Null
                  THEN ExtractText(span.output_data[1], AnswerKeys, 1) ELSE ""
         IN  ExtractQA(rows, k + 1,
                [question |-> IF q # "" THEN q ELSE qa.question,
                 answer |-> IF a # "" THEN a ELSE qa.answer])

\* the rows of a sequence that satisfy a test
ErrorSpans(rows) == {k \in 1..Len(rows) : rows[k].status = "error"}
HasOutput(rows) == \E k \in 1..Len(rows) : rows[k].output_data # Null

\* _eval_basic, lines 141-145: the relevancy score
BasicRelevancy(rows) ==
    IF ~HasOutput(rows) THEN 0
    ELSE IF ErrorSpans(rows) = {} THEN ScoreUnit
    ELSE Round4(Len(rows) - Cardinality(ErrorSpans(rows)), Max({Len(rows), 1}))

\* (mutant) coherence is granted only to the first evaluation of the store
EvalBasicOnce(rows, requested) ==
    [m \in (requested \cap EvalMetrics) \cup {"eval_method"} |->
        CASE m = "answer_relevancy" -> BasicRelevancy(rows)
          [] m = "coherence" ->
                IF HasOutput(rows) /\ \A e \in evals : e.status # "completed"
                THEN ScoreUnit ELSE 0
          [] m = "completeness" -> IF HasOutput(rows) THEN ScoreUnit ELSE 0
          [] m = "harmfulness" -> 0
          [] m = "eval_method" -> 0]

\* _eval_basic
EvalBasic(rows, requested) ==
    [m \in (requested \cap EvalMetrics) \cup {"eval_method"} |->
        CASE m = "answer_relevancy" -> BasicRelevancy(rows)
          [] m = "coherence" -> IF HasOutput(rows) THEN ScoreUnit ELSE 0
          [] m = "completeness" -> IF HasOutput(rows) THEN ScoreUnit ELSE 0
          [] m = "harmfulness" -> 0
          [] m = "eval_method" -> 0]

\* _eval_with_llm once the judge has replied with the scores llm_scores:
\* round(max(0.0, min(1.0, val)), 4) of every requested metric in the reply
EvalWithLlm(llm_scores, requested) ==
    [m \in (requested \cap DOMAIN llm_scores) \cup {"eval_method"} |->
        IF m = "eval_method" THEN ScoreUnit
        ELSE Max({0, Min({ScoreUnit, llm_scores[m]})})]

RECURSIVE SumDurations(_, _)
SumDurations(rows, ks) ==
    IF ks = {} THEN 0
    ELSE LET k == CHOOSE x \in ks : TRUE
         IN  (IF rows[k].duration_ms = NoDuration THEN 0 ELSE rows[k].duration_ms)
             + SumDurations(rows, ks \ {k})

\* _compute_stats: counts as they are, durations as they are, the ratio in
\* ten-thousandths
ComputeStats(rows) ==
    LET all == 1..Len(rows)
        llm == {k \in all : rows[k].kind = "llm_call"}
        tool == {k \in all : rows[k].kind = "tool_call"}
        total_duration == SumDurations(rows, all)
        llm_duration == SumDurations(rows, llm)
        stats == [total_spans |-> Len(rows), llm_calls |-> Cardinality(llm),
                  tool_calls |-> Cardinality(tool),
                  error_count |-> Cardinality(ErrorSpans(rows)),
                  total_duration_ms |-> total_duration,
                  llm_duration_ms |-> llm_duration]
    IN  IF total_duration > 0
        THEN Update(stats, [llm_time_ratio |-> Round4(llm_duration, total_duration)])
        ELSE stats

\* the row save_eval writes for the EvalResult of the call
EvalRow(r) ==
    [eval_id |-> r.eval_id, trace_id |-> r.trace_id, status |-> r.status,
     error |-> r.error, metrics |-> r.metrics]

\* save_eval: INSERT OR REPLACE INTO evaluations (primary key eval_id), which
\* fails with "FOREIGN KEY constraint failed" when the trace row is missing
SaveEval(T, E, row) ==
    IF GetTrace(T, row.trace_id) = {}
    THEN [evals |-> E, raised |-> TRUE]
    ELSE [evals |-> {e \in E : e.eval_id # row.eval_id} \cup {row}, raised |-> FALSE]

EvalIds == {"e1", "e2"}

\* run_evaluation lines 51-58: a new EvalResult in status running and the
\* lookup of the trace.  requested is `metrics or [m.value for m in EvalMetric]`
EvalStart(trace_id, metrics, credential) ==
    /\ run.pc = "idle"
    /\ \E id \in EvalIds : \A e \in evals : e.eval_id # id
    /\ run' = [RunIdle EXCEPT
            !.pc = IF GetTrace(traces, trace_id) = {} THEN "notfound" ELSE "found",
            !.eval_id = CHOOSE id \in EvalIds : \A e \in evals : e.eval_id # id,
            !.trace_id = trace_id,
            !.requested = IF metrics = {} THEN EvalMetrics ELSE metrics,
            !.credential = credential,
            !.status = "running"]
    /\ UNCHANGED <<now, agents, lastCall, raceVars, monVars, pureVars, storeVars, promptVars,
                   flagVars, evals>>

\* where a save_eval of the call leads: on, or out with the IntegrityError
AfterSave(r, raised, pc) ==
    IF raised THEN [r EXCEPT !.pc = "done", !.returned = "IntegrityError"]
    ELSE [r EXCEPT !.pc = pc, !.returned = IF pc = "done" THEN "result" ELSE "none"]

\* lines 59-64: no trace, the result is marked failed, saved and returned
EvalSaveFailed ==
    /\ run.pc = "notfound"
    /\ LET r == [run EXCEPT !.status = "failed", !.error = "not found"]
           st == SaveEval(traces, evals, EvalRow(r))
       IN  /\ evals' = st.evals
           /\ run' = AfterSave(r, st.raised, "done")
    /\ UNCHANGED <<now, agents, lastCall, raceVars, monVars, pureVars, storeVars, promptVars, flagVars>>

\* lines 66-67: the running result is saved
EvalSaveRunning ==
    /\ run.pc = "found"
    /\ LET st == SaveEval(traces, evals, EvalRow(run))
       IN  /\ evals' = st.evals
           /\ run' = AfterSave(run, st.raised, "running")
    /\ UNCHANGED <<now, agents, lastCall, raceVars, monVars, pureVars, storeVars, promptVars, flagVars>>

\* what the judge call does: it replies with scores, raises an Exception
\* (no module, no network, a reply that is no JSON), or is left by an
\* exception that `except Exception` does not catch (KeyboardInterrupt)
JudgeReplies ==
    {[kind |-> "scores",
      scores |-> [answer_relevancy |-> 8000, coherence |-> ScoreUnit,
                  completeness |-> 5000, harmfulness |-> 0]],
     [kind |-> "scores", scores |-> [answer_relevancy |-> 2 * ScoreUnit]],
     [kind |-> "Exception", scores |-> NoData],
     [kind |-> "BaseException", scores |-> NoData]}

\* (mutant) the judge is asked whenever a credential is configured
PathOfCredential(qa, credential) == IF credential THEN "judge" ELSE "heuristic"

\* lines 69-74: the spans are read and the scoring path is chosen
PathOf(qa, credential) ==
    IF qa.question # "" /\ qa.answer # "" /\ credential THEN "judge" ELSE "heuristic"

\* lines 69-95: extraction, scoring and statistics, with the judge's reply
EvalScore(reply) ==
    /\ run.pc = "running"
    /\ LET rows == ListSpansByTrace(spans, run.trace_id)
           qa == ExtractQA(rows, 1, [question |-> "", answer |-> ""])
           path == PathOf(qa, run.credential)
           r == [run EXCEPT !.question = qa.question, !.answer = qa.answer,
                            !.path = path, !.pc = "scored"]
       IN  /\ path = "heuristic" => reply.kind = "scores"
           /\ run' =
                IF path = "judge" /\ reply.kind = "BaseException"
                THEN [r EXCEPT !.pc = "done", !.returned = "BaseException"]
                ELSE IF path = "judge" /\ reply.kind = "Exception"
                THEN [r EXCEPT !.status = "failed", !.error = "E"]
                ELSE [r EXCEPT
                        !.status = "completed",
                        !.metrics = Update(
                            IF path = "judge"
                            THEN EvalWithLlm(reply.scores, run.requested)
                            ELSE EvalBasic(rows, run.requested),
                            ComputeStats(rows))]
    /\ UNCHANGED <<now, agents, lastCall, raceVars, monVars, pureVars, storeVars, promptVars,
                   flagVars, evals>>

\* lines 96-97: the result is saved and returned
EvalSaveFinal ==
    /\ run.pc = "scored"
    /\ LET st == SaveEval(traces, evals, EvalRow(run))
       IN  /\ evals' = st.evals
           /\ run' = AfterSave(run, st.raised, "done")
    /\ UNCHANGED <<now, agents, lastCall, raceVars, monVars, pureVars, storeVars, promptVars, flagVars>>

\* the caller has the result, or the exception
EvalReturn ==
    /\ run.pc = "done"
    /\ run' = RunIdle
    /\ UNCHANGED <<now, agents, lastCall, raceVars, monVars, pureVars, storeVars, promptVars,
                   flagVars, evals>>

\* raw spans of the traces that are evaluated: an invocation with a prompt
\* and a response; a failed llm call with output; a tool call without
\* output; an invocation whose question is empty and whose output is {}
EvalRaws ==
    {[kind |-> "invocation", input_data |-> [prompt |-> "hi"],
      output_data |-> [response |-> "hello"]],
     [span_id |-> "s1", kind |-> "llm_call", duration_ms |-> 1, status |-> "error",
      output_data |-> [response |-> "x"]],
     [span_id |-> "s2", kind |-> "tool_call", duration_ms |-> 1],
     [span_id |-> "s1", kind |-> "invocation", input_data |-> [question |-> ""],
      output_data |-> NoData]}

EvalPayloads == [trace_id : {"t1"}, spans : SeqsUpTo(EvalRaws, MaxBatch) \ {<<>>}]

\* the metric lists run_evaluation is called with: none, and one metric
MetricLists == {{}, {"coherence"}}

\* the collector and the evaluator, one call at a time
NextEval ==
    \/ \E payload \in EvalPayloads : run.pc = "idle" /\ IngestCall(payload)
    \/ IngestSaveTrace(1)
    \/ IngestSaveSpan
    \/ IngestFinish
    \/ IngestReturn
    \/ \E id \in TraceIds : run.pc = "idle" /\ DeleteBetweenCalls(id)
    \/ \E id \in TraceIds, m \in MetricLists, c \in BOOLEAN :
            ing.pc = "idle" /\ EvalStart(id, m, c)
    \/ EvalSaveFailed
    \/ EvalSaveRunning
    \/ \E reply \in JudgeReplies : EvalScore(reply)
    \/ EvalSaveFinal
    \/ EvalReturn

SpecEval == Init /\ [][NextEval]_vars


\* C23: run_evaluation for a trace_id without a trace row does not raise: it
\* returns a result in status failed with an error, and that failed result
\* is what is persisted for the call.
C23_MissingTraceFails ==
    (run.pc = "done" /\ run.error = "not found") =>
        /\ run.returned = "result"
        /\ run.status = "failed"
        /\ EvalRow(run) \in evals
        /\ \A e \in evals : e.eval_id = run.eval_id => e.status = "failed"

(***************************************************************************)
(* run_evaluation while DELETE /api/traces/{trace_id} requests are served: *)
(* the call goes on step by step, a started call is always finished.       *)
(***************************************************************************)
EvalRacePayloads ==
    [trace_id : {"t1"},
     spans : {<<[kind |-> "invocation", input_data |-> [prompt |-> "hi"],
                 output_data |-> [response |-> "hello"]]>>}]

NextEvalRace ==
    \/ \E payload \in EvalRacePayloads : run.pc = "idle" /\ IngestCall(payload)
    \/ IngestSaveTrace(1)
    \/ IngestSaveSpan
    \/ IngestFinish
    \/ IngestReturn
    \/ \E id \in TraceIds : ing.pc = "idle" /\ DeleteTraceCall(id)
    \/ \E id \in TraceIds, c \in BOOLEAN : ing.pc = "idle" /\ EvalStart(id, {}, c)
    \/ EvalSaveFailed
    \/ EvalSaveRunning
    \/ \E reply \in JudgeReplies : EvalScore(reply)
    \/ EvalSaveFinal
    \/ EvalReturn

SpecEvalRace ==
    /\ Init
    /\ [][NextEvalRace]_vars
    /\ WF_vars(EvalSaveFailed)
    /\ WF_vars(EvalSaveRunning)
    /\ WF_vars(\E reply \in JudgeReplies : EvalScore(reply))
    /\ WF_vars(EvalSaveFinal)
    /\ WF_vars(EvalReturn)

\* the persisted status of evaluation id is one of a set
Persisted(E, id, statuses) == \E e \in E : e.eval_id = id /\ e.status \in statuses

\* C24: for an existing trace the result is persisted as running before
\* extraction and scoring start; every evaluation persisted as running is
\* eventually persisted under the same eval_id as completed or failed; the
\* persisted status only moves from running to completed or failed and never
\* leaves a terminal status.
C24_RunningResolves ==
    /\ [][(run.pc # "running" /\ run'.pc = "running") =>
                Persisted(evals', run'.eval_id, {"running"})]_vars
    /\ \A id \in EvalIds :
            Persisted(evals, id, {"running"}) ~> Persisted(evals, id, {"completed", "failed"})
    /\ [][\A e \in evals : \A f \in evals' :
            e.eval_id = f.eval_id =>
                \/ f.status = e.status
                \/ e.status = "running" /\ f.status \in {"completed", "failed"}]_vars


\* the evaluation at hand has its outcome: scored, or returned
Scored == run.pc \in {"scored", "done"} /\ run.path # "none"

\* the persisted spans of the trace under evaluation
RunSpans == SpansOf(spans, run.trace_id)

\* the span-derived statistics, counted on the persisted spans
SpanStats ==
    [total_spans |-> Cardinality(RunSpans),
     llm_calls |-> Cardinality({x \in RunSpans : x.kind = "llm_call"}),
     tool_calls |-> Cardinality({x \in RunSpans : x.kind = "tool_call"}),
     error_count |-> Cardinality({x \in RunSpans : x.status = "error"})]

StatKeys ==
    {"total_spans", "llm_calls", "tool_calls", "error_count", "total_duration_ms",
     "llm_duration_ms", "llm_time_ratio"}

\* C25: an exception raised during extraction or scoring is caught by
\* run_evaluation: the call returns normally, the result is persisted with
\* status failed and the exception message, and the persisted result carries
\* the span-derived statistics of the trace.
C25_ScoringFailureCaught ==
    (run.pc = "done" /\ (run.error = "E" \/ run.returned = "BaseException")) =>
        /\ run.returned = "result"
        /\ \E e \in evals :
            /\ e.eval_id = run.eval_id
            /\ e.status = "failed"
            /\ e.error = "E"
            /\ \A k \in DOMAIN SpanStats :
                    k \in DOMAIN e.metrics /\ e.metrics[k] = SpanStats[k]

\* some persisted span of the trace has output
SomeOutput == \E x \in RunSpans : x.output_data # Null

\* C26: on the heuristic path answer_relevancy, coherence and completeness
\* (each when requested) are 1.0 if some span has non-empty output and 0.0
\* otherwise, harmfulness is 0.0 and eval_method is 0.0, also when some spans
\* of the trace have status error.
C26_HeuristicScores ==
    (Scored /\ run.status = "completed" /\ run.path = "heuristic") =>
        /\ \A m \in run.requested \cap {"answer_relevancy", "coherence", "completeness"} :
                run.metrics[m] = IF SomeOutput THEN ScoreUnit ELSE 0
        /\ "harmfulness" \in run.requested => run.metrics["harmfulness"] = 0
        /\ run.metrics["eval_method"] = 0

\* some invocation span of the trace holds a text under one of the keys
HasText(column, keys) ==
    \E x \in RunSpans :
        /\ x.kind = "invocation"
        /\ x[column] # Null
        /\ \E k \in 1..Len(keys) :
                keys[k] \in DOMAIN x[column][1] /\ x[column][1][keys[k]] # ""

\* C27: run_evaluation takes the judge path iff a judge credential is
\* configured and both the extracted question and the extracted answer are
\* non-empty, and the heuristic path otherwise; eval_method of a completed
\* result is 1.0 exactly when the judge path ran and 0.0 exactly when the
\* heuristic path ran.
C27_PathSelection ==
    Scored =>
        /\ run.path = "judge" <=>
                (run.credential /\ HasText("input_data", QuestionKeys)
                                /\ HasText("output_data", AnswerKeys))
        /\ run.path \in {"judge", "heuristic"}
        /\ run.question # "" <=> HasText("input_data", QuestionKeys)
        /\ run.answer # "" <=> HasText("output_data", AnswerKeys)
        /\ run.status = "completed" =>
                run.metrics["eval_method"] = IF run.path = "judge" THEN ScoreUnit ELSE 0

\* a completed evaluation on the judge path, returned and persisted
C27_Witness ==
    /\ run.pc = "done"
    /\ run.returned = "result"
    /\ run.status = "completed"
    /\ run.path = "judge"
    /\ EvalRow(run) \in evals
    /\ \E e \in evals : e.status = "completed" /\ e.metrics["eval_method"] = 0

\* C28: every completed evaluation's metrics contain the span-derived
\* statistics (total_spans, llm_calls, tool_calls, error_count,
\* total_duration_ms, llm_duration_ms and llm_time_ratio) whichever path ran,
\* with llm_calls, tool_calls and error_count equal to the number of
\* persisted spans of kind llm_call, of kind tool_call and of status error.
C28_StatsAlwaysMerged ==
    (Scored /\ run.status = "completed") =>
        /\ StatKeys \subseteq DOMAIN run.metrics
        /\ \A k \in {"llm_calls", "tool_calls", "error_count"} :
                run.metrics[k] = SpanStats[k]

\* the span of the scenario as it is persisted
ScenarioRaw ==
    [kind |-> "invocation", input_data |-> [prompt |-> "hi"],
     output_data |-> [response |-> "hello"]]

\* the store after the scenario's ingest: trace t1 with that one span
ScenarioStore ==
    /\ spans = {SpanRow(SpanOfRaw("t1", ScenarioRaw))}
    /\ \A t \in traces : t.trace_id = "t1"

\* C30: starting from an empty store, ingesting trace_id "t1" with one span of
\* kind invocation, input_data {prompt: "hi"} and output_data {response:
\* "hello"} returns accepted = 1; a following run_evaluation("t1") without a
\* judge credential returns status completed with answer_relevancy 1.0 and
\* eval_method 0.0.
C30_EndToEnd ==
    /\ (ing.pc = "done" /\ pre = NoTables /\ ing.trace_id = "t1"
            /\ ing.raw_spans = <<ScenarioRaw>>) =>
                (ing.result = "ok" /\ ing.accepted = 1 /\ ScenarioStore)
    /\ (run.pc = "done" /\ run.trace_id = "t1" /\ ~run.credential
            /\ run.requested = EvalMetrics /\ ScenarioStore) =>
                /\ run.returned = "result"
                /\ run.status = "completed"
                /\ run.metrics["answer_relevancy"] = ScoreUnit
                /\ run.metrics["eval_method"] = 0

\* the scenario has run: the ingest filled the empty store, the evaluation
\* of t1 without a credential has returned and is persisted
C30_Witness ==
    /\ run.pc = "done"
    /\ run.trace_id = "t1"
    /\ ~run.credential
    /\ run.requested = EvalMetrics
    /\ ScenarioStore
    /\ evals = {EvalRow(run)}


(***************************************************************************)
(* Evaluations of a trace that no longer changes: spans are ingested until *)
(* the first evaluation is persisted, and no trace is deleted.             *)
(***************************************************************************)
NextReeval ==
    \/ \E payload \in EvalPayloads : run.pc = "idle" /\ evals = {} /\ IngestCall(payload)
    \/ IngestSaveTrace(1)
    \/ IngestSaveSpan
    \/ IngestFinish
    \/ IngestReturn
    \/ \E id \in TraceIds, m \in MetricLists, c \in BOOLEAN :
            ing.pc = "idle" /\ EvalStart(id, m, c)
    \/ EvalSaveFailed
    \/ EvalSaveRunning
    \/ \E reply \in JudgeReplies : EvalScore(reply)
    \/ EvalSaveFinal
    \/ EvalReturn

SpecReeval == Init /\ [][NextReeval]_vars

\* a persisted evaluation that completed on the heuristic path
Heuristic(e) == e.status = "completed" /\ e.metrics["eval_method"] = 0

PromptIds == {"p1", "p2"}
PromptNames == {"a", "b"}
MaxVersion == 3

\* get_prompt: SELECT * FROM prompts WHERE prompt_id = ?
GetPrompt(tbl, prompt_id) == {r \in tbl : r.prompt_id = prompt_id}

\* the rows that an INSERT OR REPLACE INTO prompts deletes: the row with the
\* same primary key and the row with the same name (name TEXT UNIQUE)
Replaced(tbl, row) ==
    {r \in tbl : r.prompt_id = row.prompt_id \/ r.name = row.name}

\* save_prompt: INSERT OR REPLACE INTO prompts
SavePrompt(tbl, row) == (tbl \ Replaced(tbl, row)) \cup {row}

\* what save_prompt leaves of prompt_versions: the connection has
\* foreign_keys = ON, and prompt_versions.prompt_id is declared ON DELETE
\* CASCADE, so the versions of every row the REPLACE deletes go with it
SavePromptCascade(ptbl, vtbl, row) ==
    {v \in vtbl : \A r \in Replaced(ptbl, row) : v.prompt_id # r.prompt_id}

\* delete_prompt: DELETE FROM prompts WHERE prompt_id = ?, with the cascade
DeletePromptRows(tbl, prompt_id) == {r \in tbl : r.prompt_id # prompt_id}

\* save_prompt_version: INSERT OR REPLACE INTO prompt_versions; the row with
\* the same (prompt_id, version) gives way
SaveVersion(tbl, row) ==
    {v \in tbl : ~(v.prompt_id = row.prompt_id /\ v.version = row.version)}
    \cup {row}

\* the foreign key of prompt_versions: a version of a prompt that has no
\* row makes save_prompt_version raise IntegrityError
VersionAccepted(ptbl, row) == GetPrompt(ptbl, row.prompt_id) # {}

\* list_prompt_versions: ... WHERE prompt_id = ? ORDER BY version DESC
RECURSIVE ByVersionDesc(_)
ByVersionDesc(S) ==
    IF S = {} THEN <<>>
    ELSE LET top == CHOOSE v \in S : \A w \in S : w.version <= v.version
         IN  <<top>> \o ByVersionDesc(S \ {top})

ListPromptVersions(tbl, prompt_id) ==
    ByVersionDesc({v \in tbl : v.prompt_id = prompt_id})

\* get_active_version: ... WHERE prompt_id = ? AND is_active = 1, fetchone():
\* the set of rows the query may return first
GetActiveVersion(tbl, prompt_id) ==
    {v \in tbl : v.prompt_id = prompt_id /\ v.is_active}

\* the rows of a list, as a set
ListRows(seq) == {seq[i] : i \in 1..Len(seq)}

\* the loop of activate_version, lines 128-132: the version with the number
FindTarget(list, version_number) ==
    {v \in ListRows(list) : v.version = version_number}

\* create_version, line 98: max((v.version for v in versions), default=0) + 1
NextVersion(list) ==
    IF list = <<>> THEN 1
    ELSE (CHOOSE n \in {v.version : v \in ListRows(list)} :
            \A v \in ListRows(list) : v.version <= n) + 1

\* _new_id(): an id no row and no call under way carries
FreshPromptIds ==
    {id \in PromptIds :
        /\ \A r \in prompts : r.prompt_id # id
        /\ \A t \in Threads : calls[t].prompt_id # id}

\* the call of thread t is over: it returned, or raised
Returned(t) == [calls EXCEPT ![t] = CallIdle]

\* create_prompt, lines 25-34: the template is saved with active_version 1
CreatePromptSave(t, name) ==
    /\ calls[t].pc = "idle"
    /\ FreshPromptIds # {}
    /\ LET id == CHOOSE p \in FreshPromptIds : TRUE
           row == [prompt_id |-> id, name |-> name, description |-> "",
                   active_version |-> 1]
       IN  /\ prompts' = SavePrompt(prompts, row)
           /\ versions' = SavePromptCascade(prompts, versions, row)
           /\ calls' = [calls EXCEPT ![t] =
                [CallIdle EXCEPT !.pc = "create_prompt", !.prompt_id = id,
                                 !.version = 1]]
    /\ UNCHANGED <<now, agents, lastCall, raceVars, monVars, pureVars, storeVars,
                   flagVars, evalVars>>

\* create_prompt, lines 36-48: version 1 is saved, active
CreatePromptVersion(t) ==
    /\ calls[t].pc = "create_prompt"
    /\ LET row == [prompt_id |-> calls[t].prompt_id, version |-> 1,
                   is_active |-> TRUE]
       IN  IF VersionAccepted(prompts, row)
           THEN /\ versions' = SaveVersion(versions, row)
                /\ calls' = Returned(t)
           ELSE /\ versions' = versions
                /\ calls' = Returned(t)
    /\ UNCHANGED <<now, agents, lastCall, raceVars, monVars, pureVars, storeVars,
                   flagVars, evalVars, prompts>>

\* update_prompt, lines 67-76: the row is read and changed in memory; a
\* name or description of "None" is an argument left out
UpdatePromptGet(t, prompt_id, name, description) ==
    /\ calls[t].pc = "idle"
    /\ LET found == GetPrompt(prompts, prompt_id)
       IN  IF found = {}
           THEN calls' = Returned(t)
           ELSE LET p == CHOOSE r \in found : TRUE
                IN  calls' = [calls EXCEPT ![t] =
                        [CallIdle EXCEPT
                            !.pc = "update_prompt", !.prompt_id = prompt_id,
                            !.prompt = {[p EXCEPT
                                !.name = IF name # "None" THEN name ELSE @,
                                !.description =
                                    IF description # "None" THEN description ELSE @]}]]
    /\ UNCHANGED <<now, agents, lastCall, raceVars, monVars, pureVars, storeVars,
                   flagVars, evalVars, prompts, versions>>

\* update_prompt, lines 77-78: self._store.save_prompt(prompt)
UpdatePromptSave(t) ==
    /\ calls[t].pc = "update_prompt"
    /\ LET row == CHOOSE r \in calls[t].prompt : TRUE
       IN  /\ prompts' = SavePrompt(prompts, row)
           /\ versions' = SavePromptCascade(prompts, versions, row)
    /\ calls' = Returned(t)
    /\ UNCHANGED <<now, agents, lastCall, raceVars, monVars, pureVars, storeVars,
                   flagVars, evalVars>>

\* delete_prompt
DeletePrompt(t, prompt_id) ==
    /\ calls[t].pc = "idle"
    /\ prompts' = DeletePromptRows(prompts, prompt_id)
    /\ versions' = {v \in versions : v.prompt_id # prompt_id}
    /\ calls' = Returned(t)
    /\ UNCHANGED <<now, agents, lastCall, raceVars, monVars, pureVars, storeVars,
                   flagVars, evalVars>>

\* create_version, lines 93-95: prompt = self._store.get_prompt(prompt_id)
CreateVersionGet(t, prompt_id, activate) ==
    /\ calls[t].pc = "idle"
    /\ LET found == GetPrompt(prompts, prompt_id)
       IN  IF found = {}
           THEN calls' = Returned(t)
           ELSE calls' = [calls EXCEPT ![t] =
                    [CallIdle EXCEPT
                        !.pc = "create_version", !.prompt_id = prompt_id,
                        !.activate = activate, !.prompt = found]]
    /\ UNCHANGED <<now, agents, lastCall, raceVars, monVars, pureVars, storeVars,
                   flagVars, evalVars, prompts, versions>>

\* create_version, lines 97-112: the versions are listed and the next number
\* is taken (numbers stay within MaxVersion); with activate the call goes on
\* into _deactivate_all
CreateVersionList(t) ==
    /\ calls[t].pc = "create_version"
    /\ NextVersion(ListPromptVersions(versions, calls[t].prompt_id)) <= MaxVersion
    /\ LET c == calls[t]
           list == ListPromptVersions(versions, c.prompt_id)
       IN  calls' = [calls EXCEPT ![t] =
                [c EXCEPT !.version = NextVersion(list),
                          !.listed = {v.version : v \in ListRows(list)},
                          !.pc = IF c.activate THEN "deactivate_all" ELSE "save_version",
                          !.after = "save_prompt"]]
    /\ UNCHANGED <<now, agents, lastCall, raceVars, monVars, pureVars, storeVars,
                   flagVars, evalVars, prompts, versions>>

\* _deactivate_all, lines 170-172: the versions are listed; the active ones
\* are those the loop will save
DeactivateList(t) ==
    /\ calls[t].pc = "deactivate_all"
    /\ LET list == ListPromptVersions(
                        {v \in versions : v.is_active}, calls[t].prompt_id)
       IN  calls' = [calls EXCEPT ![t] =
                [calls[t] EXCEPT
                    !.todo = list,
                    !.pc = IF list = <<>> THEN calls[t].after ELSE "deactivate"]]
    /\ UNCHANGED <<now, agents, lastCall, raceVars, monVars, pureVars, storeVars,
                   flagVars, evalVars, prompts, versions>>

\* _deactivate_all, lines 173-174: v.is_active = False; save_prompt_version(v)
DeactivateSave(t) ==
    /\ calls[t].pc = "deactivate"
    /\ LET c == calls[t]
           row == [Head(c.todo) EXCEPT !.is_active = FALSE]
       IN  IF VersionAccepted(prompts, row)
           THEN /\ versions' = SaveVersion(versions, row)
                /\ calls' = [calls EXCEPT ![t] =
                      [c EXCEPT !.todo = Tail(c.todo),
                                !.pc = IF Tail(c.todo) = <<>> THEN c.after ELSE c.pc]]
           ELSE /\ versions' = versions
                /\ calls' = Returned(t)
    /\ UNCHANGED <<now, agents, lastCall, raceVars, monVars, pureVars, storeVars,
                   flagVars, evalVars, prompts>>

\* create_version, lines 114-117: the prompt read at line 93 is saved with
\* the new active_version
CreateVersionSavePrompt(t) ==
    /\ calls[t].pc = "save_prompt"
    /\ LET row == [(CHOOSE r \in calls[t].prompt : TRUE) EXCEPT
                        !.active_version = calls[t].version]
       IN  /\ prompts' = SavePrompt(prompts, row)
           /\ versions' = SavePromptCascade(prompts, versions, row)
    /\ calls' = [calls EXCEPT ![t].pc = "save_version"]
    /\ UNCHANGED <<now, agents, lastCall, raceVars, monVars, pureVars, storeVars,
                   flagVars, evalVars>>

\* create_version, lines 100-110 and 119-120: the new version is saved
CreateVersionSave(t) ==
    /\ calls[t].pc = "save_version"
    /\ LET c == calls[t]
           row == [prompt_id |-> c.prompt_id, version |-> c.version,
                   is_active |-> c.activate]
       IN  IF VersionAccepted(prompts, row)
           THEN /\ versions' = SaveVersion(versions, row)
                /\ calls' = Returned(t)
           ELSE /\ versions' = versions
                /\ calls' = Returned(t)
    /\ UNCHANGED <<now, agents, lastCall, raceVars, monVars, pureVars, storeVars,
                   flagVars, evalVars, prompts>>

\* activate_version, lines 127-134: the versions are listed and the target
\* is looked up; without it the call returns False
ActivateList(t, prompt_id, version_number) ==
    /\ calls[t].pc = "idle"
    /\ LET list == ListPromptVersions(versions, prompt_id)
           target == FindTarget(list, version_number)
       IN  IF target = {}
           THEN calls' = Returned(t)
           ELSE calls' = [calls EXCEPT ![t] =
                    [CallIdle EXCEPT
                        !.pc = "deactivate_all", !.prompt_id = prompt_id,
                        !.version = version_number, !.listed = {v.version : v \in ListRows(list)},
                        !.target = target,
                        !.after = "save_target"]]
    /\ UNCHANGED <<now, agents, lastCall, raceVars, monVars, pureVars, storeVars,
                   flagVars, evalVars, prompts, versions>>

\* activate_version, lines 137-138: the target read at line 127 is saved,
\* active
ActivateSaveTarget(t) ==
    /\ calls[t].pc = "save_target"
    /\ LET row == [(CHOOSE v \in calls[t].target : TRUE) EXCEPT !.is_active = TRUE]
       IN  IF VersionAccepted(prompts, row)
           THEN /\ versions' = SaveVersion(versions, row)
                /\ calls' = [calls EXCEPT ![t].pc = "get_prompt"]
           ELSE /\ versions' = versions
                /\ calls' = Returned(t)
    /\ UNCHANGED <<now, agents, lastCall, raceVars, monVars, pureVars, storeVars,
                   flagVars, evalVars, prompts>>

\* activate_version, lines 140-141: prompt = self._store.get_prompt(prompt_id)
ActivateGetPrompt(t) ==
    /\ calls[t].pc = "get_prompt"
    /\ LET found == GetPrompt(prompts, calls[t].prompt_id)
       IN  IF found = {}
           THEN calls' = Returned(t)
           ELSE calls' = [calls EXCEPT ![t] =
                    [calls[t] EXCEPT !.pc = "activate_save", !.prompt = found]]
    /\ UNCHANGED <<now, agents, lastCall, raceVars, monVars, pureVars, storeVars,
                   flagVars, evalVars, prompts, versions>>

\* activate_version, lines 142-146: the prompt is saved with the new
\* active_version, and the call returns True
ActivateSavePrompt(t) ==
    /\ calls[t].pc = "activate_save"
    /\ LET row == [(CHOOSE r \in calls[t].prompt : TRUE) EXCEPT
                        !.active_version = calls[t].version]
       IN  /\ prompts' = SavePrompt(prompts, row)
           /\ versions' = SavePromptCascade(prompts, versions, row)
    /\ calls' = Returned(t)
    /\ UNCHANGED <<now, agents, lastCall, raceVars, monVars, pureVars, storeVars,
                   flagVars, evalVars>>

\* no PromptStore call is under way
Quiet == \A t \in Threads : calls[t].pc = "idle"

\* the steps that continue a call of thread t
PromptStep(t) ==
    \/ CreatePromptVersion(t)
    \/ UpdatePromptSave(t)
    \/ CreateVersionList(t)
    \/ DeactivateList(t)
    \/ DeactivateSave(t)
    \/ CreateVersionSavePrompt(t)
    \/ CreateVersionSave(t)
    \/ ActivateSaveTarget(t)
    \/ ActivateGetPrompt(t)
    \/ ActivateSavePrompt(t)

\* the calls a thread may begin
PromptStart(t) ==
    \/ \E name \in PromptNames : CreatePromptSave(t, name)
    \/ \E id \in PromptIds, name \in PromptNames \cup {"None"},
          description \in {"None", "d"} : UpdatePromptGet(t, id, name, description)
    \/ \E id \in PromptIds : DeletePrompt(t, id)
    \/ \E id \in PromptIds, activate \in BOOLEAN : CreateVersionGet(t, id, activate)
    \/ \E id \in PromptIds, v \in 1..MaxVersion : ActivateList(t, id, v)

\* the PromptStore used by one thread: one call at a time
NextPrompts ==
    \/ PromptStart(1)
    \/ PromptStep(1)

SpecPrompts == Init /\ [][NextPrompts]_vars

\* the versions persisted for a prompt, and the active ones among them
VersionsOf(tbl, prompt_id) == {v \in tbl : v.prompt_id = prompt_id}
ActiveOf(tbl, prompt_id) == {v \in VersionsOf(tbl, prompt_id) : v.is_active}

\* in this step activate_version returns True to thread t: after the save
\* of the prompt, or when get_prompt found no prompt
ActivateReturnsTrue(t) ==
    /\ calls'[t].pc = "idle"
    /\ \/ calls[t].pc = "activate_save"
       \/ calls[t].pc = "get_prompt" /\ GetPrompt(prompts, calls[t].prompt_id) = {}

\* C31: after activate_version(prompt, v) returns true for an existing
\* version v, version v of the prompt is persisted and active, every other
\* version of the prompt is still persisted and inactive, and the prompt's
\* active_version equals v.
C31_ActivateVersion ==
    [][\A t \in Threads : ActivateReturnsTrue(t) =>
        LET c == calls[t]
        IN  /\ \E v \in ActiveOf(versions', c.prompt_id) : v.version = c.version
            /\ \A n \in c.listed \ {c.version} :
                    \E v \in VersionsOf(versions', c.prompt_id) :
                        v.version = n /\ ~v.is_active
            /\ \A v \in ActiveOf(versions', c.prompt_id) : v.version = c.version
            /\ \E p \in GetPrompt(prompts', c.prompt_id) :
                    p.active_version = c.version]_vars

(***************************************************************************)
(* The PromptStore used by several threads: a call may begin while         *)
(* another is between two of its store calls.  The calls are on prompt p1, *)
(* created while the table is empty; a prompt_id is known to callers once  *)
(* create_prompt has returned it.                                          *)
(***************************************************************************)
Handed == \A t \in Threads : calls[t].pc # "create_prompt"

NextPromptsRace ==
    \/ \E t \in Threads : prompts = {} /\ CreatePromptSave(t, "a")
    \/ \E t \in Threads : Handed /\ UpdatePromptGet(t, "p1", "None", "d")
    \/ \E t \in Threads, activate \in BOOLEAN :
            Handed /\ CreateVersionGet(t, "p1", activate)
    \/ \E t \in Threads, v \in 1..MaxVersion : Handed /\ ActivateList(t, "p1", v)
    \/ \E t \in Threads : PromptStep(t)

SpecPromptsRace == Init /\ [][NextPromptsRace]_vars

\* C32: in every reachable state of the store, under any interleaving of
\* create_prompt, create_version(activate=true) and activate_version calls
\* (two concurrent activations of different versions of one prompt
\* included), at most one version of each prompt has is_active set.
C32_AtMostOneActive ==
    \A p \in PromptIds : Cardinality(ActiveOf(versions, p)) <= 1

\* create_prompt has completed for the prompt: no call is between the save
\* of the template and the save of its first version
Created(p) ==
    \A t \in Threads : ~(calls[t].pc = "create_prompt" /\ calls[t].prompt_id = p.prompt_id)

\* C33: from the moment create_prompt has completed, every state of the
\* store a reader (get_active_version / get_active_content) can observe has
\* exactly one active version for the prompt, never zero, also in the
\* middle of activate_version or create_version(activate=true), and the
\* prompt's active_version names that version.
C33_ExactlyOneActive ==
    \A p \in prompts : Created(p) =>
        /\ Cardinality(GetActiveVersion(versions, p.prompt_id)) = 1
        /\ \A v \in GetActiveVersion(versions, p.prompt_id) :
                v.version = p.active_version

\* in this step update_prompt saves the prompt and returns to thread t
UpdateReturns(t) == calls[t].pc = "update_prompt" /\ calls'[t].pc = "idle"

\* in this step create_version saves its version and returns it to thread t
CreateVersionReturns(t) ==
    /\ calls[t].pc = "save_version"
    /\ calls'[t].pc = "idle"
    /\ GetPrompt(prompts, calls[t].prompt_id) # {}

\* C38: update_prompt changes only name, description, tags and updated_at
\* and leaves the prompt's versions, their is_active flags and
\* active_version as they were; each successful create_version adds exactly
\* one version, numbered above every existing version of the prompt, and
\* keeps all versions that existed, also when two create_version calls for
\* one prompt interleave.
C38_VersionsKept ==
    [][\A t \in Threads :
        LET c == calls[t]
            before == VersionsOf(versions, c.prompt_id)
            after == VersionsOf(versions', c.prompt_id)
        IN  /\ UpdateReturns(t) =>
                /\ after = before
                /\ \A p \in GetPrompt(prompts, c.prompt_id) :
                        \E q \in GetPrompt(prompts', c.prompt_id) :
                            q.active_version = p.active_version
            /\ CreateVersionReturns(t) =>
                /\ \A n \in c.listed : \E v \in after : v.version = n
                /\ \A v \in before : v.version < c.version /\ v \in after
                /\ Cardinality(after) = Cardinality(before) + 1
                /\ \E v \in after \ before : v.version = c.version]_vars


(***************************************************************************)
(* The scopes of the tracer one by one: child scopes are opened, written   *)
(* to and closed inside the trace scope (tracer.py, _TraceContext.span and *)
(* _SpanContext).  trc.open is the stack of the child scopes that are      *)
(* open, each with its span and the clock reading of its start; trc.exc    *)
(* is the exception the scope closed last let through.                     *)
(***************************************************************************)
ScopeSpanIds == SpanIds \cup {"s3"}
MaxEvents == 1
MaxWrites == 2

\* the dicts handed to set_input and set_output: the empty one and one with
\* a key
ScopeData == {NoData, [prompt |-> "hi"]}

\* uuid4 / _new_id: an id that no row and no span in memory carries
UnusedSpanIds ==
    {sid \in ScopeSpanIds :
        /\ \A x \in spans : x.span_id # sid
        /\ \A k \in 1..Len(trc.spans) : trc.spans[k].span_id # sid
        /\ \A k \in 1..Len(trc.open) : trc.open[k].span.span_id # sid}

\* tracer.trace(...) entered at the clock reading t
ScopeTraceOpen(tid, t) ==
    /\ UnusedSpanIds # {}
    /\ TraceOpen(tid, CHOOSE sid \in UnusedSpanIds : TRUE, t)

\* ctx.span(...) entered at the clock reading t: lines 94-101 and the
\* _SpanContext built by lines 145-154
SpanOpen(t) ==
    /\ trc.pc = "open"
    /\ Len(trc.spans) + Len(trc.open) <= MaxSpans
    /\ t >= trc.trace.start_time
    /\ UnusedSpanIds # {}
    /\ trc' = [trc EXCEPT !.open = Append(@,
            [span |-> [span_id |-> CHOOSE sid \in UnusedSpanIds : TRUE,
                       trace_id |-> trc.trace.trace_id, name |-> "request",
                       kind |-> "custom",
                       end_time |-> NoTime, duration_ms |-> NoDuration,
                       status |-> "ok",
                       attributes |-> NoData, events |-> <<>>,
                       input_data |-> Null, output_data |-> Null,
                       error |-> "None"],
             start |-> t])]
    /\ UNCHANGED <<registryVars, evals, pre, traces, spans, ing>>

\* the span a scope writes to: the root span for the trace scope (k = 0),
\* the span of the k-th open child scope
ScopeSpan(k) == IF k = 0 THEN trc.spans[1] ELSE trc.open[k].span

\* the tracer with that span replaced
WithScopeSpan(k, span) ==
    IF k = 0 THEN [trc EXCEPT !.spans[1] = span]
    ELSE [trc EXCEPT !.open[k].span = span]

\* how many fields of the spans in memory the scopes have written to
Written ==
    LET all == trc.spans \o [k \in 1..Len(trc.open) |-> trc.open[k].span]
    IN  Cardinality({k \in 1..Len(all) : all[k].input_data # Null})
        + Cardinality({k \in 1..Len(all) : all[k].output_data # Null})
        + Cardinality({k \in 1..Len(all) : DOMAIN all[k].attributes # {}})
        + Cardinality({k \in 1..Len(all) : all[k].events # <<>>})

\* set_input of the trace scope (lines 112-113) or of a child scope (160-161)
ScopeSetInput(k, data) ==
    /\ trc.pc = "open"
    /\ Written < MaxWrites
    /\ k \in 0..Len(trc.open)
    /\ trc' = WithScopeSpan(k, [ScopeSpan(k) EXCEPT !.input_data = <<data>>])
    /\ UNCHANGED <<registryVars, evals, pre, traces, spans, ing>>

\* set_output of the trace scope (lines 115-116) or of a child scope (163-164)
ScopeSetOutput(k, data) ==
    /\ trc.pc = "open"
    /\ Written < MaxWrites
    /\ k \in 0..Len(trc.open)
    /\ trc' = WithScopeSpan(k, [ScopeSpan(k) EXCEPT !.output_data = <<data>>])
    /\ UNCHANGED <<registryVars, evals, pre, traces, spans, ing>>

\* set_attribute of a child scope, lines 166-167
ScopeSetAttribute(k, key, value) ==
    /\ trc.pc = "open"
    /\ Written < MaxWrites
    /\ k \in 1..Len(trc.open)
    /\ trc' = WithScopeSpan(k, [ScopeSpan(k) EXCEPT
                    !.attributes = [n \in DOMAIN @ \cup {key} |->
                                        IF n = key THEN value ELSE @[n]]])
    /\ UNCHANGED <<registryVars, evals, pre, traces, spans, ing>>

\* add_event of the trace scope (lines 118-123) or of a child scope
\* (169-174); the time stamp of the event is left out
ScopeAddEvent(k, name) ==
    /\ trc.pc = "open"
    /\ Written < MaxWrites
    /\ k \in 0..Len(trc.open)
    /\ Len(ScopeSpan(k).events) < MaxEvents
    /\ trc' = WithScopeSpan(k, [ScopeSpan(k) EXCEPT
                    !.events = Append(@, [name |-> name, attributes |-> NoData])])
    /\ UNCHANGED <<registryVars, evals, pre, traces, spans, ing>>

\* the innermost child scope is left at the clock reading t, with exception
\* exc of its body or with none: lines 104-107 mark the span when `except
\* Exception` catches, then the finally stamps it (_SpanContext._finalize,
\* lines 176-179) and collects it (line 110)
Collected(t, exc) ==
    LET top == trc.open[Len(trc.open)]
    IN  [trc EXCEPT
            !.open = SubSeq(@, 1, Len(@) - 1),
            !.spans = Append(@,
                [top.span EXCEPT
                    !.end_time = t,
                    !.duration_ms = t - top.start,
                    !.status = IF exc = "Exception" THEN "error" ELSE @,
                    !.error = IF exc = "Exception" THEN "E" ELSE @]),
            !.exc = exc]

\* a close that also writes the span to the table
SpanCloseSaving(t, exc) ==
    /\ trc.pc = "open"
    /\ trc.open # <<>>
    /\ t >= trc.open[Len(trc.open)].start
    /\ trc' = Collected(t, exc)
    /\ spans' = spans \cup {SpanRow(trc'.spans[Len(trc'.spans)])}
    /\ UNCHANGED <<registryVars, evals, pre, traces, ing>>

SpanClose(t, exc) ==
    /\ trc.pc = "open"
    /\ trc.open # <<>>
    /\ t >= trc.open[Len(trc.open)].start
    /\ trc' = Collected(t, exc)
    /\ UNCHANGED <<registryVars, evals, pre, traces, spans, ing>>

\* the with block of tracer.trace(...) is left once those inside it are
ScopeTraceClose(t, exc) ==
    /\ trc.open = <<>>
    /\ TraceClose(t, exc)

NextScopes ==
    \/ \E t \in Stamps : ScopeTraceOpen("t1", t)
    \/ \E t \in Stamps : SpanOpen(t)
    \/ \E k \in 0..MaxSpans, data \in ScopeData : ScopeSetInput(k, data)
    \/ \E k \in 0..MaxSpans : ScopeSetOutput(k, [response |-> "hello"])
    \/ \E k \in 1..MaxSpans : ScopeSetAttribute(k, "model", "m")
    \/ \E k \in 0..MaxSpans : ScopeAddEvent(k, "retry")
    \/ \E t \in Stamps, exc \in Raised \cup {"none"} : SpanClose(t, exc)
    \/ \E t \in Stamps, exc \in Raised \cup {"none"} : ScopeTraceClose(t, exc)
    \/ TraceSaveSpanSeen
    \/ TraceReturn
    \/ DeleteAfterTrace("t1")

SpecScopes == Init /\ [][NextScopes]_vars

\* C34: while a trace scope is open nothing is written: opening the trace,
\* opening and closing child spans and set_input / set_output /
\* set_attribute / add_event leave the tables as they are.  The close of the
\* trace scope inserts the trace row with span_count 1 + k, then each of its
\* store calls inserts the row of one collected span that had none; when the
\* scope is left the trace has its 1 + k span rows and span_count 1 + k.
C34_WritesAtClose ==
    /\ [][trc'.pc = "open" => UNCHANGED <<traces, spans, evals>>]_vars
    /\ [][(trc.pc = "open" /\ trc'.pc = "saving") =>
            /\ GetTrace(traces, trc.trace.trace_id) = {}
            /\ traces' = traces \cup {trc'.trace}
            /\ trc'.trace.span_count = Len(trc.spans)
            /\ spans' = spans]_vars
    /\ [][trc.pc = "saving" =>
            /\ \A x \in spans : x.span_id # trc.spans[trc.i].span_id
            /\ spans' = spans \cup {SpanRow(trc.spans[trc.i])}
            /\ {[row EXCEPT !.span_count = 0] : row \in traces'}
                    = {[row EXCEPT !.span_count = 0] : row \in traces}]_vars
    /\ [](trc.pc = "done" =>
            /\ \E row \in GetTrace(traces, trc.trace.trace_id) :
                    row.span_count = Len(trc.spans)
            /\ Cardinality(SpansOf(spans, trc.trace.trace_id)) = Len(trc.spans)
            /\ \A k \in 1..Len(trc.spans) : SpanRow(trc.spans[k]) \in spans)

\* a trace scope with two child spans, one of them written to, has been left
C34_Witness ==
    /\ trc.pc = "done"
    /\ Len(trc.spans) = 3
    /\ \E k \in 2..3 : trc.spans[k].input_data # Null
    /\ Cardinality(SpansOf(spans, trc.trace.trace_id)) = 3

\* the span has its end stamps
Stamped(span) == span.end_time # NoTime /\ span.duration_ms # NoDuration

\* the span has neither
Unstamped(span) == span.end_time = NoTime /\ span.duration_ms = NoDuration

\* the parts of C35 about the stamps: unset while the scope is open, set by
\* the close and left alone afterwards, set in every row the tracer wrote
StampedOnce ==
    /\ [](\A k \in 1..Len(trc.open) : Unstamped(trc.open[k].span))
    /\ [](trc.pc = "open" => Unstamped(trc.spans[1]))
    /\ [][(trc.pc = "open" /\ Len(trc'.open) < Len(trc.open)) =>
            Stamped(trc'.spans[Len(trc'.spans)])]_vars
    /\ [][(trc.pc = "open" /\ trc'.pc = "saving") => Stamped(trc'.spans[1])]_vars
    /\ [][(trc.pc # "idle" /\ trc'.pc # "idle") =>
            \A k \in 2..Len(trc.spans) :
                /\ trc'.spans[k].end_time = trc.spans[k].end_time
                /\ trc'.spans[k].duration_ms = trc.spans[k].duration_ms]_vars
    /\ [][(trc.pc \in {"saving", "done"} /\ trc'.pc # "idle") =>
            /\ trc'.spans[1].end_time = trc.spans[1].end_time
            /\ trc'.spans[1].duration_ms = trc.spans[1].duration_ms]_vars
    /\ [](\A x \in spans : Stamped(x))

\* C35: the end_time and duration_ms of a span are unset while its scope is
\* open and set once, by the close of the scope, so that every row the
\* tracer wrote has both; and a child scope left by a failure of its body
\* collects its span with status error.
C35_StampedAtClose ==
    /\ StampedOnce
    /\ [][(trc.pc = "open" /\ Len(trc'.open) < Len(trc.open) /\ trc'.exc \in Raised) =>
            trc'.spans[Len(trc'.spans)].status = "error"]_vars

\* a store call of the tracer's close has saved the span s
SpanSaved(s) == trc.pc = "saving" /\ s = trc.spans[trc.i] /\ spans' # spans

\* the round trip of the spans whose input_data and output_data are unset or
\* have a key
RoundTripNonEmpty ==
    [][\A s \in {trc.spans[k] : k \in 1..Len(trc.spans)} :
        (/\ SpanSaved(s)
         /\ s.input_data # <<NoData>>
         /\ s.output_data # <<NoData>>) => GetSpan(spans', s.span_id) = {s}]_vars

\* C40: get_span after save_span(s) returns a span equal to s in every
\* field, also when attributes, events, input_data or output_data are empty;
\* and the value of a flag or parameter read back from its column is the
\* value that was saved, also when it is falsy.
C40_RoundTrip ==
    /\ [][\A s \in {trc.spans[k] : k \in 1..Len(trc.spans)} :
            SpanSaved(s) => GetSpan(spans', s.span_id) = {s}]_vars
    /\ [](\A v \in Values : ValueOfColumn(ValueColumn(v)) = v)


(***************************************************************************)
(* A trace row saved again: store.save_trace for a trace_id that has a     *)
(* row, with the collector and the evaluator, one call at a time.          *)
(***************************************************************************)
ResavePayloads ==
    [trace_id : {"t1"},
     spans : {<<[span_id |-> "s1", kind |-> "invocation",
                 input_data |-> [prompt |-> "hi"],
                 output_data |-> [response |-> "hello"]]>>,
              <<[span_id |-> "s2", end_time |-> 1]>>}]

\* get_trace(trace_id), a later end_time set on the Trace, save_trace: what
\* collector lines 109-114 are written to do
SaveTraceCall(id, t) ==
    /\ ing.pc = "idle"
    /\ run.pc = "idle"
    /\ GetTrace(traces, id) # {}
    /\ LET updated == CHOOSE row \in GetTrace(traces, id) : TRUE
           st == SaveTrace(traces, spans, [updated EXCEPT !.end_time = t])
       IN  traces' = st.traces /\ spans' = st.spans
    /\ evals' = ReplaceCascade(traces, evals, id)
    /\ UNCHANGED <<registryVars, pre, ing, trc>>

NextResave ==
    \/ \E payload \in ResavePayloads : run.pc = "idle" /\ IngestCall(payload)
    \/ IngestSaveTrace(1)
    \/ IngestSaveSpan
    \/ IngestFinish
    \/ IngestReturn
    \/ \E id \in TraceIds : run.pc = "idle" /\ DeleteBetweenCalls(id)
    \/ \E id \in TraceIds, c \in BOOLEAN : ing.pc = "idle" /\ EvalStart(id, {}, c)
    \/ EvalSaveFailed
    \/ EvalSaveRunning
    \/ \E reply \in JudgeReplies : EvalScore(reply)
    \/ EvalSaveFinal
    \/ EvalReturn
    \/ \E id \in TraceIds, t \in Stamps : SaveTraceCall(id, t)

SpecResave == Init /\ [][NextResave]_vars

\* the step leaves the spans and the evaluations of every trace that has a
\* row before it and after it
KeepsData ==
    \A id \in TraceIds :
        (GetTrace(traces, id) # {} /\ GetTrace(traces', id) # {}) =>
            /\ SpanIdsOf(SpansOf(spans, id)) \subseteq SpanIdsOf(SpansOf(spans', id))
            /\ {e.eval_id : e \in EvalsOf(evals, id)}
                    \subseteq {e.eval_id : e \in EvalsOf(evals', id)}

\* the ingest part of C37: no step of ingest_spans removes a span or an
\* evaluation of a trace
IngestKeepsData == [][ing' # ing => KeepsData]_vars

\* C37: saving a trace row that exists removes nothing: every step that
\* leaves the trace its row (an ingest into it, a save_trace of its
\* trace_id) leaves all its spans and evaluations persisted; only
\* delete_trace, which removes the row, removes them.
C37_ResaveKeepsData == [][KeepsData]_vars

\* the span_count of the trace is the number of its span rows
CountMatches(id) ==
    \A row \in GetTrace(traces, id) : row.span_count = Cardinality(SpansOf(spans, id))

\* ingest_spans has returned its answer for a trace that had no spans, and
\* was called with every span_count at the number of span rows
IngestedAfresh ==
    /\ ing.pc = "done"
    /\ ing.result = "ok"
    /\ SpansOf(pre.spans, ing.trace_id) = {}
    /\ \A row \in pre.traces :
            row.span_count = Cardinality(SpansOf(pre.spans, row.trace_id))

\* the part of C39 about batches whose spans all carry a span_id of their
\* own that no other trace uses
DistinctBatchCounted ==
    (/\ IngestedAfresh
     /\ \A k \in 1..Len(ing.raw_spans) :
            /\ "span_id" \in DOMAIN ing.raw_spans[k]
            /\ \A j \in 1..Len(ing.raw_spans) :
                    j # k => Get(ing.raw_spans[j], "span_id", "") # ing.raw_spans[k].span_id
            /\ \A x \in pre.spans : x.span_id # ing.raw_spans[k].span_id) =>
        /\ ing.accepted = Cardinality(SpansOf(spans, ing.trace_id))
        /\ \A id \in TraceIds : CountMatches(id)

\* C39: after ingest_spans into a trace that had no spans, accepted is the
\* number of span rows of the trace and its span_count, whatever the batch
\* (spans without span_id, a span_id twice, a span_id that a span of another
\* trace has), and the span_count of every other trace still is the number
\* of its span rows.
C39_AcceptedIsPersisted ==
    IngestedAfresh =>
        /\ ing.accepted = Cardinality(SpansOf(spans, ing.trace_id))
        /\ \A id \in TraceIds : CountMatches(id)


(***************************************************************************)
(* deregister while a heartbeat and the monitor's sweep are under way.     *)
(***************************************************************************)
NextDeregisterRace ==
    \/ RaceRegister
    \/ Deregister("a1")
    \/ \E data \in RacePayloads : HbRead(data)
    \/ HbStamp
    \/ HbWrite
    \/ HbReturn
    \/ SweepList
    \/ SweepNow
    \/ SweepOne
    \/ SweepEnd
    \/ SweepAgain
    \/ Tick

SpecDeregisterRace == Init /\ [][NextDeregisterRace]_vars

\* no heartbeat and no sweep is under way
RaceQuiet == hb.pc \in {"idle", "done"} /\ sweeper.pc \in {"idle", "done"}

\* C36: once deregister was the last call of the registry and every
\* heartbeat and sweep that was under way has completed, also those that
\* had read the agent's row before, the table holds no row of the agent, so
\* that a later heartbeat finds none and returns None.
C36_StaysDeregistered ==
    (lastCall.op = "deregister" /\ RaceQuiet) => GetAgent(agents, "a1") = {}

====
